---------------------------- MODULE Spec2Model ----------------------------
(***************************************************************************)
(* A model of the style-resolution and layout core of the browser:         *)
(* selector index and matching (css/index.rs, css/selector.rs), the        *)
(* cascade (css/cascade.rs), the computed style (css/computed.rs), block   *)
(* and image layout, the layout tree, the display list and scrolling       *)
(* (layout/tree.rs, layout/box_model.rs), flex and grid layout             *)
(* (layout/flex.rs, layout/grid.rs), the tab's page and image loading      *)
(* (app/tab.rs) and the navigation history (app/history.rs).               *)
(*                                                                         *)
(* Conventions.                                                            *)
(*  - An f32 of the program is the integer number of hundredths it holds   *)
(*    (16.0 is 1600, 21.44 is 2144, 0.5 is 50); f32 rounding is not        *)
(*    modelled.                                                            *)
(*  - Option<T> is a sequence: <<>> is None and <<x>> is Some(x).          *)
(*  - A colour is <<r, g, b, a>> with u8 components, as given to           *)
(*    Color::rgba.                                                         *)
(*  - Strings are atomic: the class attribute is held already split on     *)
(*    whitespace, the style attribute already parsed into declarations,    *)
(*    and string parsers (Color::from_hex, str::parse) are tables over the *)
(*    strings that occur in the model.                                     *)
(***************************************************************************)
EXTENDS Integers, Sequences, FiniteSets, TLC

VARIABLES
    \* css/cascade.rs: StyleComputer, and the document it was last run on
    stylesheets, selector_index, computed_styles, document,
    \* css/computed.rs: one ComputedStyle::apply_value call
    av_style, av_decl, av_result,
    \* layout/tree.rs: one LayoutTree::layout run on a block box
    lb_box, lb_containing_width, lb_done,
    \* layout/tree.rs: LayoutTree viewport and scroll state
    content_height, viewport_height, scroll_y, scroll_animator, scrollbar_state,
    \* app/tab.rs: the img elements of the tab's document, the root of its
    \* layout tree, its image cache and pending images, and its viewport width
    tab_images, layout_root, image_cache, pending_images, tab_viewport_width,
    \* layout/flex.rs: one layout_flex run on a flex container, and the flex
    \* lines it built
    flex_box, flex_containing_width, flex_lines, flex_done,
    \* layout/grid.rs: one layout_grid run on a grid container, and the row
    \* heights it calculated
    grid_box, grid_containing_width, row_heights, grid_done,
    \* layout/tree.rs: one LayoutTree::build and build_display_list on a
    \* document and its computed styles
    build_document, build_styles, build_root, display_list,
    \* css/selector.rs: one ComplexSelector::matches call
    m_document, m_selector, m_node, m_result,
    \* app/history.rs: History, and what the last call returned
    entries, current_index, history_result,
    \* app/browser.rs, app/tab.rs, net/async_loader.rs: the loading fields of
    \* the active Tab and of Chrome, Browser::progress_rx, the load tasks with
    \* their cancel tokens, and the channel of each; history variables: every
    \* message each task sent, and the loads that were superseded
    tab, chrome, progress_rx, tasks, channels, sent, superseded

vars == <<stylesheets, selector_index, computed_styles, document,
          av_style, av_decl, av_result,
          lb_box, lb_containing_width, lb_done,
          content_height, viewport_height, scroll_y, scroll_animator, scrollbar_state,
          tab_images, layout_root, image_cache, pending_images, tab_viewport_width,
          flex_box, flex_containing_width, flex_lines, flex_done,
          grid_box, grid_containing_width, row_heights, grid_done,
          build_document, build_styles, build_root, display_list,
          m_document, m_selector, m_node, m_result,
          entries, current_index, history_result,
          tab, chrome, progress_rx, tasks, channels, sent, superseded>>

styleVars == <<stylesheets, selector_index, computed_styles, document>>
applyVars == <<av_style, av_decl, av_result>>
blockVars == <<lb_box, lb_containing_width, lb_done>>
scrollVars == <<content_height, viewport_height, scroll_y, scroll_animator, scrollbar_state>>
imageVars == <<tab_images, layout_root, image_cache, pending_images, tab_viewport_width>>
flexVars == <<flex_box, flex_containing_width, flex_lines, flex_done>>
gridVars == <<grid_box, grid_containing_width, row_heights, grid_done>>
renderVars == <<build_document, build_styles, build_root, display_list>>
matchVars == <<m_document, m_selector, m_node, m_result>>
historyVars == <<entries, current_index, history_result>>
loadVars == <<tab, chrome, progress_rx, tasks, channels, sent, superseded>>

---------------------------------------------------------------------------
\* Option<T>

Some(x) == <<x>>
NoneV == <<>>
IsSome(o) == o # <<>>
IsNone(o) == o = <<>>

Max(a, b) == IF a >= b THEN a ELSE b
Min(a, b) == IF a <= b THEN a ELSE b
\* f32::clamp(lo, hi)
Clamp(x, lo, hi) == IF x < lo THEN lo ELSE IF x > hi THEN hi ELSE x
Abs(x) == IF x < 0 THEN -x ELSE x

\* n pixels as hundredths
Px(n) == n * 100

---------------------------------------------------------------------------
\* dom/node.rs, dom/document.rs

Node(id, data, tag_name, attributes, parent, children) ==
    [id |-> id, data |-> data, tag_name |-> tag_name, attributes |-> attributes,
     parent |-> parent, children |-> children]

\* Document::get_node
get_node(d, id) == IF id \in DOMAIN d.nodes THEN Some(d.nodes[id]) ELSE NoneV

\* Node::is_element
is_element(node) == node.data = "Element"

\* Document::parent
parent(d, id) == IF id \in DOMAIN d.nodes THEN d.nodes[id].parent ELSE NoneV

\* Document::children
children(d, id) == IF id \in DOMAIN d.nodes THEN d.nodes[id].children ELSE <<>>

\* ElementData::get_attribute
get_attribute(elem, name) ==
    IF name \in DOMAIN elem.attributes THEN Some(elem.attributes[name]) ELSE NoneV

\* ElementData::id
element_id(elem) == get_attribute(elem, "id")

\* ElementData::classes: the class attribute split on whitespace
classes(elem) ==
    IF "class" \in DOMAIN elem.attributes THEN elem.attributes["class"] ELSE <<>>

RECURSIVE CountElementsUpTo(_, _, _, _)
\* the loop of Document::element_index: Some(count) at node_id, None when the
\* siblings end before it
CountElementsUpTo(d, siblings, node_id, count) ==
    IF siblings = <<>> THEN NoneV
    ELSE LET sibling_id == Head(siblings)
             is_el == sibling_id \in DOMAIN d.nodes /\ is_element(d.nodes[sibling_id])
             idx == IF is_el THEN count + 1 ELSE count
         IN IF is_el /\ sibling_id = node_id THEN Some(idx)
            ELSE CountElementsUpTo(d, Tail(siblings), node_id, idx)

\* Document::element_index
element_index(d, node_id) ==
    IF node_id \notin DOMAIN d.nodes THEN NoneV
    ELSE IF ~is_element(d.nodes[node_id]) THEN NoneV
    ELSE IF IsNone(d.nodes[node_id].parent) THEN NoneV
    ELSE CountElementsUpTo(d, children(d, d.nodes[node_id].parent[1]), node_id, 0)


\* Document::is_last_element_child: the last element among the siblings
RECURSIVE LastElementOf(_, _)
LastElementOf(d, siblings) ==
    IF siblings = <<>> THEN NoneV
    ELSE LET sibling_id == siblings[Len(siblings)]
         IN IF sibling_id \in DOMAIN d.nodes /\ is_element(d.nodes[sibling_id])
            THEN Some(sibling_id)
            ELSE LastElementOf(d, SubSeq(siblings, 1, Len(siblings) - 1))

is_last_element_child(d, node_id) ==
    IF node_id \notin DOMAIN d.nodes THEN FALSE
    ELSE IF ~is_element(d.nodes[node_id]) THEN FALSE
    ELSE IF IsNone(d.nodes[node_id].parent) THEN FALSE
    ELSE LastElementOf(d, children(d, d.nodes[node_id].parent[1])) = Some(node_id)

---------------------------------------------------------------------------
\* css/selector.rs

\* SimpleSelector; the substring attribute selectors (Contains, StartsWith,
\* EndsWith, WordMatch) are outside the model, strings being atomic
SimpleSelector(kind, name, value, a, b) ==
    [kind |-> kind, name |-> name, value |-> value, a |-> a, b |-> b]
Universal == SimpleSelector("Universal", "", "", 0, 0)
Tag(t) == SimpleSelector("Tag", t, "", 0, 0)
Class(c) == SimpleSelector("Class", c, "", 0, 0)
Id(i) == SimpleSelector("Id", i, "", 0, 0)
AttributeExists(attr) == SimpleSelector("AttributeExists", attr, "", 0, 0)
AttributeEquals(attr, val) == SimpleSelector("AttributeEquals", attr, val, 0, 0)
FirstChild == SimpleSelector("FirstChild", "", "", 0, 0)
LastChild == SimpleSelector("LastChild", "", "", 0, 0)
OnlyChild == SimpleSelector("OnlyChild", "", "", 0, 0)
NthChild(a, b) == SimpleSelector("NthChild", "", "", a, b)

\* nth_child_matches without the test of the sign of diff
nth_child_matches_any_sign(a, b, index) ==
    IF a = 0 THEN index = b
    ELSE (Abs(index - b) % Abs(a)) = 0

\* nth_child_matches; diff % a == 0 does not depend on the signs
nth_child_matches(a, b, index) ==
    IF a = 0 THEN index = b
    ELSE LET diff == index - b
         IN IF a > 0 THEN diff >= 0 /\ (Abs(diff) % Abs(a)) = 0
            ELSE diff <= 0 /\ (Abs(diff) % Abs(a)) = 0

\* one arm of the match in CompoundSelector::matches; tag names of elements
\* and of parsed selectors are lower case, so eq_ignore_ascii_case is equality
SimpleMatches(selector, d, node_id) ==
    LET element == d.nodes[node_id]
    IN CASE selector.kind = "Universal" -> TRUE
         [] selector.kind = "Tag" -> element.tag_name = selector.name
         [] selector.kind = "Class" ->
                \E i \in 1..Len(classes(element)) : classes(element)[i] = selector.name
         [] selector.kind = "Id" -> element_id(element) = Some(selector.name)
         [] selector.kind = "AttributeExists" ->
                IsSome(get_attribute(element, selector.name))
         [] selector.kind = "AttributeEquals" ->
                get_attribute(element, selector.name) = Some(selector.value)
         [] selector.kind = "FirstChild" -> element_index(d, node_id) = Some(1)
         [] selector.kind = "LastChild" -> is_last_element_child(d, node_id)
         [] selector.kind = "OnlyChild" ->
                element_index(d, node_id) = Some(1) /\ is_last_element_child(d, node_id)
         [] selector.kind = "NthChild" ->
                LET index == element_index(d, node_id)
                IN IF IsSome(index)
                   THEN nth_child_matches(selector.a, selector.b, index[1])
                   ELSE FALSE

\* CompoundSelector::matches; a compound is its simple_selectors
CompoundMatches(compound, d, node_id) ==
    /\ node_id \in DOMAIN d.nodes
    /\ is_element(d.nodes[node_id])
    /\ \A i \in 1..Len(compound) : SimpleMatches(compound[i], d, node_id)

\* Specificity, ordered as #[derive(Ord)] orders the fields
Specificity(ids, cls, tags) == [ids |-> ids, classes |-> cls, tags |-> tags]

SpecificityLess(x, y) ==
    \/ x.ids < y.ids
    \/ x.ids = y.ids /\ x.classes < y.classes
    \/ x.ids = y.ids /\ x.classes = y.classes /\ x.tags < y.tags

CountKinds(compound, kinds) ==
    Cardinality({i \in 1..Len(compound) : compound[i].kind \in kinds})

\* CompoundSelector::specificity
CompoundSpecificity(compound) ==
    Specificity(CountKinds(compound, {"Id"}),
                CountKinds(compound, {"Class", "AttributeExists", "AttributeEquals",
                                      "FirstChild", "LastChild", "OnlyChild", "NthChild"}),
                CountKinds(compound, {"Tag"}))

\* ComplexSelector.parts, right to left: the subject first, with combinator
\* "None"; each later part with the combinator that joins it to the one before
Part(compound, combinator) == [compound |-> compound, combinator |-> combinator]

RECURSIVE match_ancestors(_, _, _, _), MatchAnyAncestor(_, _, _, _)
RECURSIVE MatchNearestAncestor(_, _, _, _)
\* the Descendant arm settling on the nearest ancestor that matches the
\* compound, with no elder one tried after it
MatchNearestAncestor(parts, d, current, part_index) ==
    IF IsNone(current) THEN FALSE
    ELSE IF CompoundMatches(parts[part_index].compound, d, current[1])
         THEN match_ancestors(parts, d, current[1], part_index + 1)
         ELSE MatchNearestAncestor(parts, d, parent(d, current[1]), part_index)

\* ComplexSelector::match_ancestors; part_index counts from 1 here
match_ancestors(parts, d, node_id, part_index) ==
    IF part_index > Len(parts) THEN TRUE
    ELSE LET compound == parts[part_index].compound
             combinator == IF parts[part_index].combinator = "None"
                           THEN "Descendant" ELSE parts[part_index].combinator
         IN IF combinator = "Child"
            THEN LET parent_id == parent(d, node_id)
                 IN IF IsSome(parent_id) /\ CompoundMatches(compound, d, parent_id[1])
                    THEN match_ancestors(parts, d, parent_id[1], part_index + 1)
                    ELSE FALSE
            ELSE MatchAnyAncestor(parts, d, parent(d, node_id), part_index)

\* the while loop of the Descendant arm
MatchAnyAncestor(parts, d, current, part_index) ==
    IF IsNone(current) THEN FALSE
    ELSE IF /\ CompoundMatches(parts[part_index].compound, d, current[1])
            /\ match_ancestors(parts, d, current[1], part_index + 1)
         THEN TRUE
         ELSE MatchAnyAncestor(parts, d, parent(d, current[1]), part_index)

\* ComplexSelector::matches (Selector::matches delegates to it)
Matches(parts, d, node_id) ==
    IF parts = <<>> THEN FALSE
    ELSE IF ~CompoundMatches(parts[1].compound, d, node_id) THEN FALSE
    ELSE IF Len(parts) = 1 THEN TRUE
    ELSE match_ancestors(parts, d, node_id, 2)

RECURSIVE SumSpecificity(_)
\* ComplexSelector::specificity
SumSpecificity(parts) ==
    IF parts = <<>> THEN Specificity(0, 0, 0)
    ELSE LET spec == CompoundSpecificity(Head(parts).compound)
             total == SumSpecificity(Tail(parts))
         IN Specificity(total.ids + spec.ids, total.classes + spec.classes,
                        total.tags + spec.tags)

RECURSIVE simple_selectors(_)
\* Selector::simple_selectors: the simple selectors of every part, flattened
simple_selectors(parts) ==
    IF parts = <<>> THEN <<>>
    ELSE Head(parts).compound \o simple_selectors(Tail(parts))

---------------------------------------------------------------------------
\* css/stylesheet.rs

\* Value
Value(kind, kw, num, unit, color, items) ==
    [kind |-> kind, kw |-> kw, num |-> num, unit |-> unit, color |-> color,
     items |-> items]
Keyword(k) == Value("Keyword", k, 0, "", <<>>, <<>>)
Length(v, unit) == Value("Length", "", v, unit, <<>>, <<>>)
ColorValue(c) == Value("Color", "", 0, "", c, <<>>)
Number(v) == Value("Number", "", v, "", <<>>, <<>>)
Percentage(p) == Value("Percentage", "", p, "", <<>>, <<>>)
Auto == Value("Auto", "", 0, "", <<>>, <<>>)
NoneValue == Value("None", "", 0, "", <<>>, <<>>)
List(values) == Value("List", "", 0, "", <<>>, values)

Declaration(property, value, important) ==
    [property |-> property, value |-> value, important |-> important]

Rule(selectors, declarations) == [selectors |-> selectors, declarations |-> declarations]

\* render/painter.rs: Color::rgba, Color::rgb and the colour constants
rgba(r, g, b, a) == <<r, g, b, a>>
rgb(r, g, b) == rgba(r, g, b, 255)
BLACK == rgb(0, 0, 0)
WHITE == rgb(255, 255, 255)
TRANSPARENT == rgba(0, 0, 0, 0)

\* a product of two f32 held as hundredths; the operands of the model are
\* whole or half pixels and whole percents, so the division is exact
Mul(x, y) == (x * y) \div 100

\* Value::to_px
to_px(value, parent_font_size, vw, vh) ==
    CASE value.kind = "Length" ->
            (CASE value.unit = "Px" -> Some(value.num)
               [] value.unit = "Em" -> Some(Mul(value.num, parent_font_size))
               [] value.unit = "Rem" -> Some(Mul(value.num, Px(16)))
               [] value.unit = "Percent" -> NoneV
               [] value.unit = "Vh" -> Some(Mul(value.num, vh) \div 100)
               [] value.unit = "Vw" -> Some(Mul(value.num, vw) \div 100))
      [] value.kind = "Number" -> Some(value.num)
      [] value.kind = "Percentage" -> Some(value.num)
      [] OTHER -> NoneV

\* str::to_lowercase on the strings of the model
to_lowercase(s) ==
    CASE s = "RED" -> "red"
      [] s = "P" -> "p"
      [] s = "DIV" -> "div"
      [] OTHER -> s

\* Value::to_color, for the keywords of the table that the model uses
to_color(value) ==
    CASE value.kind = "Color" -> Some(value.color)
      [] value.kind = "Keyword" ->
            (LET kw == to_lowercase(value.kw)
             IN CASE kw = "black" -> Some(BLACK)
                  [] kw = "white" -> Some(WHITE)
                  [] kw = "red" -> Some(rgb(255, 0, 0))
                  [] kw = "green" -> Some(rgb(0, 128, 0))
                  [] kw = "blue" -> Some(rgb(0, 0, 255))
                  [] kw = "yellow" -> Some(rgb(255, 255, 0))
                  [] kw = "transparent" -> Some(TRANSPARENT)
                  [] OTHER -> NoneV)
      [] OTHER -> NoneV

\* Value::as_keyword
as_keyword(value) == IF value.kind = "Keyword" THEN Some(value.kw) ELSE NoneV

---------------------------------------------------------------------------
\* css/index.rs

IndexKey(kind, name) == [kind |-> kind, name |-> name]

IndexedRule(rule, selector, specificity, source_order) ==
    [rule |-> rule, selector |-> selector, specificity |-> specificity,
     source_order |-> source_order]

RECURSIVE FirstOfKind(_, _)
\* one of the three loops of get_index_key: the first simple selector of a kind
FirstOfKind(simples, kind) ==
    IF simples = <<>> THEN NoneV
    ELSE IF Head(simples).kind = kind THEN Some(Head(simples).name)
    ELSE FirstOfKind(Tail(simples), kind)

\* SelectorIndex::get_index_key
get_index_key(selector) ==
    LET simples == simple_selectors(selector)
    IN IF IsSome(FirstOfKind(simples, "Id"))
       THEN IndexKey("Id", FirstOfKind(simples, "Id")[1])
       ELSE IF IsSome(FirstOfKind(simples, "Class"))
       THEN IndexKey("Class", FirstOfKind(simples, "Class")[1])
       ELSE IF IsSome(FirstOfKind(simples, "Tag"))
       THEN IndexKey("Tag", FirstOfKind(simples, "Tag")[1])
       ELSE IndexKey("Universal", "")

RECURSIVE RuleSelectorPairs(_)
\* the two outer loops of SelectorIndex::build: every (rule, selector) pair of
\* every stylesheet, in order
RuleSelectorPairs(sheets) ==
    IF sheets = <<>> THEN <<>>
    ELSE LET RECURSIVE OfRules(_)
             OfRules(rules) ==
                 IF rules = <<>> THEN <<>>
                 ELSE [i \in 1..Len(Head(rules).selectors) |->
                          [rule |-> Head(rules), selector |-> Head(rules).selectors[i]]]
                      \o OfRules(Tail(rules))
         IN OfRules(Head(sheets)) \o RuleSelectorPairs(Tail(sheets))

\* the IndexedRules of SelectorIndex::build, source_order counting from 0
IndexedRules(sheets) ==
    LET pairs == RuleSelectorPairs(sheets)
    IN [i \in 1..Len(pairs) |->
           IndexedRule(pairs[i].rule, pairs[i].selector,
                       SumSpecificity(pairs[i].selector), i - 1)]

\* one bucket: the indexed rules of a key, in the order they were pushed
Bucket(indexed, key) ==
    SelectSeq(indexed, LAMBDA r : get_index_key(r.selector) = key)

KeysOfKind(indexed, kind) ==
    {get_index_key(indexed[i].selector).name :
        i \in {j \in 1..Len(indexed) : get_index_key(indexed[j].selector).kind = kind}}

\* SelectorIndex::build
build(sheets) ==
    LET indexed == IndexedRules(sheets)
    IN [by_id |-> [k \in KeysOfKind(indexed, "Id") |-> Bucket(indexed, IndexKey("Id", k))],
        by_class |-> [k \in KeysOfKind(indexed, "Class") |->
                         Bucket(indexed, IndexKey("Class", k))],
        by_tag |-> [k \in KeysOfKind(indexed, "Tag") |-> Bucket(indexed, IndexKey("Tag", k))],
        universal |-> Bucket(indexed, IndexKey("Universal", ""))]

RECURSIVE ClassCandidates(_, _)
\* the loop over the element's classes in get_candidate_rules
ClassCandidates(index, cls) ==
    IF cls = <<>> THEN <<>>
    ELSE (IF Head(cls) \in DOMAIN index.by_class THEN index.by_class[Head(cls)] ELSE <<>>)
         \o ClassCandidates(index, Tail(cls))

\* SelectorIndex::get_candidate_rules
get_candidate_rules(index, id, cls, tag_name) ==
    (IF IsSome(id) /\ id[1] \in DOMAIN index.by_id THEN index.by_id[id[1]] ELSE <<>>)
    \o ClassCandidates(index, cls)
    \o (IF to_lowercase(tag_name) \in DOMAIN index.by_tag
        THEN index.by_tag[to_lowercase(tag_name)] ELSE <<>>)
    \o index.universal

---------------------------------------------------------------------------
\* css/computed.rs; of ComputedStyle the model keeps the fields below, and of
\* apply_value the arms it lists (the padding, border, height, min/max and
\* box-sizing fields are set by the layout inputs directly)

\* FontWeight
FontWeight(kind, n) == [kind |-> kind, n |-> n]
Normal == FontWeight("Normal", 0)
Bold == FontWeight("Bold", 0)
Numeric(n) == FontWeight("Numeric", n)

\* ComputedStyle::default
DefaultStyle ==
    [display |-> "Block", color |-> BLACK, background_color |-> TRANSPARENT,
     font_size |-> Px(16), font_weight |-> Normal, text_align |-> "Left",
     line_height |-> 120,
     margin_top |-> 0, margin_right |-> 0, margin_bottom |-> 0, margin_left |-> 0,
     padding_top |-> 0, padding_right |-> 0, padding_bottom |-> 0, padding_left |-> 0,
     border_top_width |-> 0, border_right_width |-> 0, border_bottom_width |-> 0,
     border_left_width |-> 0,
     width |-> NoneV, height |-> NoneV, min_width |-> NoneV, min_height |-> NoneV,
     max_width |-> NoneV, max_height |-> NoneV, box_sizing |-> "ContentBox"]

\* ComputedStyle::for_tag, for the tags of the model
for_tag(tag) ==
    CASE tag = "h1" -> [DefaultStyle EXCEPT !.font_size = Px(32), !.font_weight = Bold,
                                            !.margin_top = 2144, !.margin_bottom = 2144]
      [] tag = "p" -> [DefaultStyle EXCEPT !.margin_top = Px(16), !.margin_bottom = Px(16)]
      [] tag = "a" -> [DefaultStyle EXCEPT !.display = "Inline", !.color = rgb(0, 0, 238)]
      [] tag \in {"strong", "b"} ->
            [DefaultStyle EXCEPT !.display = "Inline", !.font_weight = Bold]
      [] tag = "span" -> [DefaultStyle EXCEPT !.display = "Inline"]
      [] tag = "img" -> [DefaultStyle EXCEPT !.display = "InlineBlock"]
      [] OTHER -> DefaultStyle

\* the match on the keyword in the "display" arm
DisplayOf(kw) ==
    CASE kw = "block" -> "Block"
      [] kw = "inline" -> "Inline"
      [] kw = "inline-block" -> "InlineBlock"
      [] kw = "none" -> "None"
      [] kw = "flex" -> "Flex"
      [] kw = "grid" -> "Grid"
      [] kw = "table" -> "Table"
      [] kw = "table-row" -> "TableRow"
      [] kw = "table-cell" -> "TableCell"
      [] OTHER -> "Block"

\* the match on the keyword in the "text-align" arm
TextAlignOf(kw) ==
    CASE kw = "left" -> "Left"
      [] kw = "center" -> "Center"
      [] kw = "right" -> "Right"
      [] kw = "justify" -> "Justify"
      [] OTHER -> "Left"

\* f32 as u16: truncates, and saturates at 0 and 65535
AsU16(n) == Clamp(n \div 100, 0, 65535)

RECURSIVE FilterMapToPx(_, _, _, _)
\* values.iter().filter_map(|v| v.to_px(..)).collect()
FilterMapToPx(values, parent_font_size, vw, vh) ==
    IF values = <<>> THEN <<>>
    ELSE LET px == to_px(Head(values), parent_font_size, vw, vh)
         IN px \o FilterMapToPx(Tail(values), parent_font_size, vw, vh)

\* the "margin" arm
ApplyMargin(style, value, parent_font_size, vw, vh) ==
    IF value.kind = "List"
    THEN LET vals == FilterMapToPx(value.items, parent_font_size, vw, vh)
         IN CASE Len(vals) = 1 ->
                    [style EXCEPT !.margin_top = vals[1], !.margin_right = vals[1],
                                  !.margin_bottom = vals[1], !.margin_left = vals[1]]
              [] Len(vals) = 2 ->
                    [style EXCEPT !.margin_top = vals[1], !.margin_bottom = vals[1],
                                  !.margin_right = vals[2], !.margin_left = vals[2]]
              [] Len(vals) = 3 ->
                    [style EXCEPT !.margin_top = vals[1], !.margin_right = vals[2],
                                  !.margin_left = vals[2], !.margin_bottom = vals[3]]
              [] Len(vals) = 4 ->
                    [style EXCEPT !.margin_top = vals[1], !.margin_right = vals[2],
                                  !.margin_bottom = vals[3], !.margin_left = vals[4]]
              [] OTHER -> style
    ELSE LET px == to_px(value, parent_font_size, vw, vh)
         IN IF IsSome(px)
            THEN [style EXCEPT !.margin_top = px[1], !.margin_right = px[1],
                               !.margin_bottom = px[1], !.margin_left = px[1]]
            ELSE style

\* ComputedStyle::apply_value
apply_value(style, property, value, parent_font_size, vw, vh) ==
    LET px == to_px(value, parent_font_size, vw, vh)
        c == to_color(value)
        kw == as_keyword(value)
    IN CASE property = "display" ->
                IF IsSome(kw) THEN [style EXCEPT !.display = DisplayOf(kw[1])] ELSE style
         [] property = "color" ->
                IF IsSome(c) THEN [style EXCEPT !.color = c[1]] ELSE style
         [] property \in {"background-color", "background"} ->
                IF IsSome(c) THEN [style EXCEPT !.background_color = c[1]] ELSE style
         [] property = "font-size" ->
                IF IsSome(px) THEN [style EXCEPT !.font_size = px[1]] ELSE style
         [] property = "font-weight" ->
                IF IsSome(kw)
                THEN [style EXCEPT !.font_weight = IF kw[1] = "bold" THEN Bold ELSE Normal]
                ELSE IF value.kind = "Number"
                THEN [style EXCEPT !.font_weight = Numeric(AsU16(value.num))]
                ELSE style
         [] property = "text-align" ->
                IF IsSome(kw) THEN [style EXCEPT !.text_align = TextAlignOf(kw[1])]
                ELSE style
         [] property = "line-height" ->
                IF value.kind = "Number" THEN [style EXCEPT !.line_height = value.num]
                ELSE IF IsSome(px) /\ style.font_size > 0
                THEN [style EXCEPT !.line_height = (px[1] * 100) \div style.font_size]
                ELSE style
         [] property = "margin" -> ApplyMargin(style, value, parent_font_size, vw, vh)
         [] property = "margin-top" ->
                IF IsSome(px) THEN [style EXCEPT !.margin_top = px[1]] ELSE style
         [] property = "margin-right" ->
                IF IsSome(px) THEN [style EXCEPT !.margin_right = px[1]] ELSE style
         [] property = "margin-bottom" ->
                IF IsSome(px) THEN [style EXCEPT !.margin_bottom = px[1]] ELSE style
         [] property = "margin-left" ->
                IF IsSome(px) THEN [style EXCEPT !.margin_left = px[1]] ELSE style
         [] property = "width" ->
                IF value.kind = "Auto" THEN [style EXCEPT !.width = NoneV]
                ELSE IF IsSome(px) THEN [style EXCEPT !.width = Some(px[1])]
                ELSE style
         [] OTHER -> style

---------------------------------------------------------------------------
\* css/cascade.rs

\* StyleComputer::new: the viewport the computer was made for
sc_viewport_width == Px(800)
sc_viewport_height == Px(600)

\* render/painter.rs: Color::from_hex on the attribute strings of the model; a
\* colour name has no hexadecimal digits in the places read
from_hex(hex) ==
    CASE hex = "#ff0000" -> Some(rgb(255, 0, 0))
      [] hex = "#00f" -> Some(rgb(0, 0, 255))
      [] OTHER -> NoneV

\* width.trim_end_matches("px").parse::<f32>() on the attribute strings of the
\* model
ParsePx(str) ==
    CASE str = "100" -> Some(Px(100))
      [] str = "200px" -> Some(Px(200))
      [] OTHER -> NoneV

\* the bgcolor and color arms: from_hex first, then the string as a keyword
AttributeColor(str) ==
    IF IsSome(from_hex(str)) THEN from_hex(str) ELSE to_color(Keyword(str))

\* the match of the align arm, the style's own value for other strings
AlignOf(str, text_align) ==
    LET a == to_lowercase(str)
    IN CASE a = "left" -> "Left"
         [] a = "center" -> "Center"
         [] a = "right" -> "Right"
         [] a = "justify" -> "Justify"
         [] OTHER -> text_align

\* StyleComputer::apply_presentational_attributes: the bgcolor, width, align
\* and color arms (the width arm for pixel values)
apply_presentational_attributes(style, element, parent_font_size) ==
    LET bgcolor == get_attribute(element, "bgcolor")
        s1 == IF IsSome(bgcolor) /\ IsSome(AttributeColor(bgcolor[1]))
              THEN [style EXCEPT !.background_color = AttributeColor(bgcolor[1])[1]]
              ELSE style
        width == get_attribute(element, "width")
        s2 == IF IsSome(width) /\ IsSome(ParsePx(width[1]))
              THEN [s1 EXCEPT !.width = ParsePx(width[1])]
              ELSE s1
        align == get_attribute(element, "align")
        s3 == IF IsSome(align)
              THEN [s2 EXCEPT !.text_align = AlignOf(align[1], s2.text_align)]
              ELSE s2
        color_attr == get_attribute(element, "color")
    IN IF IsSome(color_attr) /\ IsSome(AttributeColor(color_attr[1]))
       THEN [s3 EXCEPT !.color = AttributeColor(color_attr[1])[1]]
       ELSE s3

\* the order of sort_by_key(|(spec, order, _)| (*spec, *order))
KeyLessEq(x, y) ==
    \/ SpecificityLess(x.specificity, y.specificity)
    \/ x.specificity = y.specificity /\ x.source_order <= y.source_order

RECURSIVE InsertSorted(_, _)
InsertSorted(sorted, x) ==
    IF sorted = <<>> THEN <<x>>
    ELSE IF KeyLessEq(sorted[Len(sorted)], x) THEN Append(sorted, x)
    ELSE Append(InsertSorted(SubSeq(sorted, 1, Len(sorted) - 1), x), sorted[Len(sorted)])

RECURSIVE SortByKey(_)
\* the stable sort_by_key of the matching rules
SortByKey(rules) ==
    IF rules = <<>> THEN <<>>
    ELSE InsertSorted(SortByKey(SubSeq(rules, 1, Len(rules) - 1)), rules[Len(rules)])

RECURSIVE ApplyDeclarations(_, _, _, _)
\* the inner loop over a rule's declarations; which selects the declarations
\* applied: "normal", "important" or "all"
ApplyDeclarations(style, declarations, which, parent_font_size) ==
    IF declarations = <<>> THEN style
    ELSE LET decl == Head(declarations)
             applies == \/ which = "all"
                        \/ which = "normal" /\ ~decl.important
                        \/ which = "important" /\ decl.important
             next == IF applies
                     THEN apply_value(style, decl.property, decl.value, parent_font_size,
                                      sc_viewport_width, sc_viewport_height)
                     ELSE style
         IN ApplyDeclarations(next, Tail(declarations), which, parent_font_size)

RECURSIVE ApplyRules(_, _, _, _)
\* one of the two loops over the sorted matching rules
ApplyRules(style, rules, which, parent_font_size) ==
    IF rules = <<>> THEN style
    ELSE ApplyRules(ApplyDeclarations(style, Head(rules).rule.declarations, which,
                                      parent_font_size),
                    Tail(rules), which, parent_font_size)

\* the candidates of the index that the selector check keeps, sorted
matching_rules(index, d, node_id) ==
    LET element == d.nodes[node_id]
        candidates == IF IsSome(index)
                      THEN get_candidate_rules(index[1], element_id(element),
                                               classes(element), element.tag_name)
                      ELSE <<>>
    IN SortByKey(SelectSeq(candidates, LAMBDA r : Matches(r.selector, d, node_id)))

\* the element arm with the presentational attributes applied after the
\* stylesheet rules and before the inline style
ElementStyleAttributesAfterRules(index, d, node_id, parent_style) ==
    LET element == d.nodes[node_id]
        s0 == for_tag(element.tag_name)
        s1 == IF IsSome(parent_style)
              THEN [s0 EXCEPT !.color = parent_style[1].color,
                              !.font_size = parent_style[1].font_size,
                              !.line_height = parent_style[1].line_height]
              ELSE s0
        rules == matching_rules(index, d, node_id)
        parent_font_size == IF IsSome(parent_style) THEN parent_style[1].font_size
                            ELSE Px(16)
        s2 == ApplyRules(s1, rules, "normal", parent_font_size)
        s3 == ApplyRules(s2, rules, "important", parent_font_size)
        s4 == apply_presentational_attributes(s3, element, parent_font_size)
        style_attr == get_attribute(element, "style")
    IN IF IsSome(style_attr)
       THEN ApplyDeclarations(s4, style_attr[1], "all", parent_font_size)
       ELSE s4

\* the element arm of compute_node_styles: the style of one element
ElementStyle(index, d, node_id, parent_style) ==
    LET element == d.nodes[node_id]
        s0 == for_tag(element.tag_name)
        s1 == IF IsSome(parent_style)
              THEN [s0 EXCEPT !.color = parent_style[1].color,
                              !.font_size = parent_style[1].font_size,
                              !.line_height = parent_style[1].line_height]
              ELSE s0
        rules == matching_rules(index, d, node_id)
        parent_font_size == IF IsSome(parent_style) THEN parent_style[1].font_size
                            ELSE Px(16)
        s2 == apply_presentational_attributes(s1, element, parent_font_size)
        s3 == ApplyRules(s2, rules, "normal", parent_font_size)
        s4 == ApplyRules(s3, rules, "important", parent_font_size)
        style_attr == get_attribute(element, "style")
    IN IF IsSome(style_attr)
       THEN ApplyDeclarations(s4, style_attr[1], "all", parent_font_size)
       ELSE s4

RECURSIVE compute_node_styles(_, _, _, _), ComputeChildren(_, _, _, _)
\* StyleComputer::compute_node_styles: the entries it inserts for node_id and
\* its descendants
compute_node_styles(index, d, node_id, parent_style) ==
    IF node_id \notin DOMAIN d.nodes THEN <<>>
    ELSE LET node == d.nodes[node_id]
             style == IF is_element(node)
                      THEN ElementStyle(index, d, node_id, parent_style)
                      ELSE IF IsSome(parent_style) THEN parent_style[1] ELSE DefaultStyle
         IN (node_id :> style) @@ ComputeChildren(index, d, children(d, node_id), style)

ComputeChildren(index, d, child_ids, style) ==
    IF child_ids = <<>> THEN <<>>
    ELSE compute_node_styles(index, d, Head(child_ids), Some(style))
         @@ ComputeChildren(index, d, Tail(child_ids), style)

\* StyleComputer as the pair of fields the methods below change
StyleComputer(sheets, index) == [stylesheets |-> sheets, selector_index |-> index]

\* add_stylesheet without the invalidation of the index
add_stylesheet_keeping_index(sc, stylesheet) ==
    StyleComputer(Append(sc.stylesheets, stylesheet), sc.selector_index)

\* StyleComputer::add_stylesheet
add_stylesheet(sc, stylesheet) ==
    StyleComputer(Append(sc.stylesheets, stylesheet), NoneV)

\* StyleComputer::clear_stylesheets
clear_stylesheets(sc) == StyleComputer(<<>>, NoneV)

\* StyleComputer::ensure_index
ensure_index(sc) ==
    IF IsNone(sc.selector_index)
    THEN StyleComputer(sc.stylesheets, Some(build(sc.stylesheets)))
    ELSE sc

\* StyleComputer::compute_styles: the computed_styles it leaves
compute_styles(sc, d) ==
    compute_node_styles(ensure_index(sc).selector_index, d, d.root, NoneV)

---------------------------------------------------------------------------
\* The stylesheets and documents the style computer is run on.  The selectors
\* are written as parse_selector builds them (subject first).

Compound(simples) == <<Part(simples, "None")>>
Descendant(subject, ancestor) == <<Part(subject, "None"), Part(ancestor, "Descendant")>>
Child(subject, ancestor) == <<Part(subject, "None"), Part(ancestor, "Child")>>

\* #wrap p { color: red }
SheetWrapP ==
    <<Rule(<<Descendant(<<Tag("p")>>, <<Id("wrap")>>)>>,
           <<Declaration("color", Keyword("red"), FALSE)>>)>>

\* p { color: blue; background-color: green }  .note { color: green }
SheetPNote ==
    <<Rule(<<Compound(<<Tag("p")>>)>>,
           <<Declaration("color", Keyword("blue"), FALSE),
             Declaration("background-color", Keyword("green"), FALSE)>>),
      Rule(<<Compound(<<Class("note")>>)>>,
           <<Declaration("color", Keyword("green"), FALSE)>>)>>

\* div { color: red !important }  #x { color: blue }
SheetImportant ==
    <<Rule(<<Compound(<<Tag("div")>>)>>,
           <<Declaration("color", Keyword("red"), TRUE)>>),
      Rule(<<Compound(<<Id("x")>>)>>,
           <<Declaration("color", Keyword("blue"), FALSE)>>)>>

\* .box p { color: yellow !important }  div > p, * { width: 200px }
SheetBoxP ==
    <<Rule(<<Descendant(<<Tag("p")>>, <<Class("box")>>)>>,
           <<Declaration("color", Keyword("yellow"), TRUE)>>),
      Rule(<<Child(<<Tag("p")>>, <<Tag("div")>>), Compound(<<Universal>>)>>,
           <<Declaration("width", Length(Px(200), "Px"), FALSE)>>)>>

SheetPool == {SheetWrapP, SheetPNote, SheetImportant, SheetBoxP}

EmptyAttributes == <<>>

\* <div id="wrap" class="box"><p class="note">text</p><p>text</p></div>
DocWrap ==
    [root |-> 0,
     nodes |-> (0 :> Node(0, "Document", "", EmptyAttributes, NoneV, <<1>>))
            @@ (1 :> Node(1, "Element", "div", [id |-> "wrap", class |-> <<"box">>],
                          Some(0), <<2, 4>>))
            @@ (2 :> Node(2, "Element", "p", [class |-> <<"note">>], Some(1), <<3>>))
            @@ (3 :> Node(3, "Text", "", EmptyAttributes, Some(2), <<>>))
            @@ (4 :> Node(4, "Element", "p", EmptyAttributes, Some(1), <<5>>))
            @@ (5 :> Node(5, "Text", "", EmptyAttributes, Some(4), <<>>))]

\* <div id="x" bgcolor="red" style="background-color: blue">
\*   <p bgcolor="red" width="100" align="center">text</p>
\*   <span color="#00f" style="color: bogus; width: 200px">text</span></div>
DocAttrs ==
    [root |-> 0,
     nodes |-> (0 :> Node(0, "Document", "", EmptyAttributes, NoneV, <<1>>))
            @@ (1 :> Node(1, "Element", "div",
                          [id |-> "x", bgcolor |-> "red",
                           style |-> <<Declaration("background-color", Keyword("blue"),
                                                   FALSE)>>],
                          Some(0), <<2, 4>>))
            @@ (2 :> Node(2, "Element", "p",
                          [bgcolor |-> "red", width |-> "100", align |-> "center"],
                          Some(1), <<3>>))
            @@ (3 :> Node(3, "Text", "", EmptyAttributes, Some(2), <<>>))
            @@ (4 :> Node(4, "Element", "span",
                          [color |-> "#00f",
                           style |-> <<Declaration("color", Keyword("bogus"), FALSE),
                                       Declaration("width", Length(Px(200), "Px"),
                                                   FALSE)>>],
                          Some(1), <<5>>))
            @@ (5 :> Node(5, "Text", "", EmptyAttributes, Some(4), <<>>))]

\* <div><h1>text</h1><a>text</a></div>
DocHeading ==
    [root |-> 0,
     nodes |-> (0 :> Node(0, "Document", "", EmptyAttributes, NoneV, <<1>>))
            @@ (1 :> Node(1, "Element", "div", EmptyAttributes, Some(0), <<2, 4>>))
            @@ (2 :> Node(2, "Element", "h1", EmptyAttributes, Some(1), <<3>>))
            @@ (3 :> Node(3, "Text", "", EmptyAttributes, Some(2), <<>>))
            @@ (4 :> Node(4, "Element", "a", EmptyAttributes, Some(1), <<5>>))
            @@ (5 :> Node(5, "Text", "", EmptyAttributes, Some(4), <<>>))]

Documents == {DocWrap, DocAttrs, DocHeading}

\* the most stylesheets added before a clear
MaxSheets == 2

---------------------------------------------------------------------------
\* The style computer: stylesheets are added and cleared and styles computed,
\* in any order.

StyleIdle ==
    /\ stylesheets = <<>>
    /\ selector_index = NoneV
    /\ computed_styles = <<>>
    /\ document = NoneV

ApplyIdle ==
    /\ av_style = DefaultStyle
    /\ av_decl = Declaration("", Auto, FALSE)
    /\ av_result = NoneV

BlockIdle ==
    /\ lb_box = <<>>
    /\ lb_containing_width = 0
    /\ lb_done = FALSE

ScrollIdle ==
    /\ content_height = 0
    /\ viewport_height = 0
    /\ scroll_y = 0
    /\ scroll_animator = <<>>
    /\ scrollbar_state = <<>>

ImageIdle ==
    /\ tab_images = <<>>
    /\ layout_root = <<>>
    /\ image_cache = <<>>
    /\ pending_images = <<>>
    /\ tab_viewport_width = 0

FlexIdle ==
    /\ flex_box = <<>>
    /\ flex_containing_width = 0
    /\ flex_lines = <<>>
    /\ flex_done = FALSE

GridIdle ==
    /\ grid_box = <<>>
    /\ grid_containing_width = 0
    /\ row_heights = <<>>
    /\ grid_done = FALSE

RenderIdle ==
    /\ build_document = <<>>
    /\ build_styles = <<>>
    /\ build_root = <<>>
    /\ display_list = <<>>

MatchIdle ==
    /\ m_document = <<>>
    /\ m_selector = <<>>
    /\ m_node = 0
    /\ m_result = <<>>

HistoryIdle ==
    /\ entries = <<>>
    /\ current_index = <<>>
    /\ history_result = <<>>

LoadIdle ==
    /\ tab = <<>>
    /\ chrome = <<>>
    /\ progress_rx = <<>>
    /\ tasks = <<>>
    /\ channels = <<>>
    /\ sent = <<>>
    /\ superseded = {}

StyleInit ==
    /\ StyleIdle /\ ApplyIdle /\ BlockIdle /\ ScrollIdle /\ ImageIdle
    /\ FlexIdle /\ GridIdle /\ RenderIdle /\ MatchIdle /\ HistoryIdle /\ LoadIdle

AddStylesheet ==
    \E stylesheet \in SheetPool :
        /\ Len(stylesheets) < MaxSheets
        /\ LET sc == add_stylesheet(StyleComputer(stylesheets, selector_index), stylesheet)
           IN /\ stylesheets' = sc.stylesheets
              /\ selector_index' = sc.selector_index
        /\ UNCHANGED <<computed_styles, document>>
        /\ UNCHANGED <<applyVars, blockVars, scrollVars, imageVars, flexVars, gridVars, renderVars, matchVars, historyVars, loadVars>>

ClearStylesheets ==
    /\ LET sc == clear_stylesheets(StyleComputer(stylesheets, selector_index))
       IN /\ stylesheets' = sc.stylesheets
          /\ selector_index' = sc.selector_index
    /\ UNCHANGED <<computed_styles, document>>
    /\ UNCHANGED <<applyVars, blockVars, scrollVars, imageVars, flexVars, gridVars, renderVars, matchVars, historyVars, loadVars>>

ComputeStyles ==
    \E d \in Documents :
        /\ LET sc == StyleComputer(stylesheets, selector_index)
           IN /\ selector_index' = ensure_index(sc).selector_index
              /\ computed_styles' = compute_styles(sc, d)
        /\ document' = Some(d)
        /\ UNCHANGED stylesheets
        /\ UNCHANGED <<applyVars, blockVars, scrollVars, imageVars, flexVars, gridVars, renderVars, matchVars, historyVars, loadVars>>

StyleNext == AddStylesheet \/ ClearStylesheets \/ ComputeStyles

StyleSpec == StyleInit /\ [][StyleNext]_vars

---------------------------------------------------------------------------
\* Properties of the style computer

Range(seq) == {seq[i] : i \in 1..Len(seq)}

ElementsOf(d) == {n \in DOMAIN d.nodes : is_element(d.nodes[n])}

\* the styles in computed_styles were computed from the current stylesheets
\* on the current document
StylesComputed == IsSome(selector_index) /\ IsSome(document)

\* C1 (as stated): for every element of every document, every indexed rule of
\* the current stylesheets whose selector matches the element is among the
\* candidates the index returns for the element's id, classes and tag.
C1_IndexComplete ==
    IsSome(selector_index) =>
        \A d \in Documents : \A n \in ElementsOf(d) :
            \A r \in Range(IndexedRules(stylesheets)) :
                Matches(r.selector, d, n) =>
                    r \in Range(get_candidate_rules(selector_index[1],
                                                    element_id(d.nodes[n]),
                                                    classes(d.nodes[n]),
                                                    d.nodes[n].tag_name))

\* a declaration sets one of the properties with a value the property takes
SetsProperty(decl, properties) ==
    /\ decl.property \in properties
    /\ IF decl.property = "width"
       THEN decl.value.kind = "Auto"
            \/ IsSome(to_px(decl.value, Px(16), sc_viewport_width, sc_viewport_height))
       ELSE IsSome(to_color(decl.value))

DeclarationsSet(declarations, properties) ==
    \E i \in 1..Len(declarations) : SetsProperty(declarations[i], properties)

RulesSet(rules, properties) ==
    \E i \in 1..Len(rules) : DeclarationsSet(rules[i].rule.declarations, properties)

\* the inline declarations of an element
InlineOf(element) ==
    IF IsSome(get_attribute(element, "style")) THEN get_attribute(element, "style")[1]
    ELSE <<>>

\* what the presentational attributes alone make of a field
AttributeLayer(element, field) ==
    apply_presentational_attributes(DefaultStyle, element, Px(16))[field]

\* what the stylesheet rules the cascade applies alone make of a field
RuleLayer(rules, field) ==
    ApplyRules(ApplyRules(DefaultStyle, rules, "normal", Px(16)), rules, "important",
               Px(16))[field]

\* what the inline style alone makes of a field
InlineLayer(element, field) ==
    ApplyDeclarations(DefaultStyle, InlineOf(element), "all", Px(16))[field]

\* the fields that are not inherited and that a presentational attribute sets,
\* with the properties that set them
LayeredFields == {"background_color", "width"}
PropertiesOf(field) ==
    CASE field = "width" -> {"width"}
      [] field = "color" -> {"color"}
      [] field = "background_color" -> {"background-color", "background"}

\* C2 (as stated): the layers are applied in the order stylesheet rules,
\* presentational attributes, inline style: a field has the inline value when
\* the inline style sets it, else the attribute's value when an attribute sets
\* it, else the value of the stylesheet rules.
C2_AttributesOverRules ==
    StylesComputed =>
        \A n \in ElementsOf(document[1]) : \A field \in LayeredFields :
            LET element == document[1].nodes[n]
                rules == matching_rules(selector_index, document[1], n)
            IN computed_styles[n][field] =
                  IF DeclarationsSet(InlineOf(element), PropertiesOf(field))
                  THEN InlineLayer(element, field)
                  ELSE IF AttributeLayer(element, field) # DefaultStyle[field]
                  THEN AttributeLayer(element, field)
                  ELSE RuleLayer(rules, field)

\* C2 (amended): the layers are applied in the order presentational
\* attributes, stylesheet rules, inline style: a field has the inline value
\* when the inline style sets it, else the value of the stylesheet rules the
\* cascade applies when one of them sets it, else the attribute's value.
C2_RulesOverAttributes ==
    StylesComputed =>
        \A n \in ElementsOf(document[1]) : \A field \in LayeredFields :
            LET element == document[1].nodes[n]
                rules == matching_rules(selector_index, document[1], n)
            IN computed_styles[n][field] =
                  IF DeclarationsSet(InlineOf(element), PropertiesOf(field))
                  THEN InlineLayer(element, field)
                  ELSE IF RulesSet(rules, PropertiesOf(field))
                  THEN RuleLayer(rules, field)
                  ELSE AttributeLayer(element, field)

\* C2 witness: an element with a bgcolor attribute and no inline style has the
\* background of a stylesheet rule, and an element with bgcolor and an inline
\* background has the inline one
C2_Witness ==
    /\ StylesComputed
    /\ document[1] = DocAttrs
    /\ RulesSet(matching_rules(selector_index, DocAttrs, 2), {"background-color"})
    /\ computed_styles[2].background_color = rgb(0, 128, 0)
    /\ AttributeLayer(DocAttrs.nodes[2], "background_color") = rgb(255, 0, 0)
    /\ computed_styles[1].background_color = rgb(0, 0, 255)

\* the fields that compute_node_styles copies from the parent's style, and
\* other fields that for_tag seeds; of these the stylesheets, attributes and
\* inline styles of the model set the colour only
InheritedFields == {"color", "font_size", "line_height"}
SeededFields == {"display", "font_weight", "margin_top", "margin_bottom"}

\* no matching rule, presentational attribute or inline declaration sets the
\* field of the element
NothingSets(d, n, field) ==
    field = "color" =>
        /\ ~DeclarationsSet(InlineOf(d.nodes[n]), {"color"})
        /\ ~RulesSet(matching_rules(selector_index, d, n), {"color"})
        /\ IsNone(get_attribute(d.nodes[n], "color"))

\* the computed style of the parent of a node
ParentStyle(d, n) == computed_styles[d.nodes[n].parent[1]]

\* C29: a field of an element that no matching rule, presentational attribute
\* or inline declaration sets has the value for_tag seeds for the tag when
\* for_tag defines one for the tag; the parent's font size, line height and
\* colour are used only where for_tag defines none
C29_UaDefaultsStay ==
    StylesComputed =>
        \A n \in ElementsOf(document[1]) :
            LET seeded == for_tag(document[1].nodes[n].tag_name)
            IN /\ \A field \in SeededFields : computed_styles[n][field] = seeded[field]
               /\ \A field \in InheritedFields :
                     NothingSets(document[1], n, field) =>
                         computed_styles[n][field] =
                             IF seeded[field] # DefaultStyle[field] THEN seeded[field]
                             ELSE ParentStyle(document[1], n)[field]

\* the fields the stylesheets of the model set
CascadeFields == {"color", "background_color", "width"}

\* the indexed rules of the current stylesheets whose selector matches the
\* element and that set one of the properties, in declarations that are
\* important or in declarations that are not
MatchingSetters(d, n, properties, important) ==
    {r \in Range(IndexedRules(stylesheets)) :
        /\ Matches(r.selector, d, n)
        /\ \E i \in 1..Len(r.rule.declarations) :
              /\ r.rule.declarations[i].important = important
              /\ SetsProperty(r.rule.declarations[i], properties)}

\* lexicographic (specificity, source order), specificity being (ids, classes,
\* tags) compared lexicographically
CascadeLessEq(x, y) ==
    \/ x.specificity.ids < y.specificity.ids
    \/ /\ x.specificity.ids = y.specificity.ids
       /\ x.specificity.classes < y.specificity.classes
    \/ /\ x.specificity.ids = y.specificity.ids
       /\ x.specificity.classes = y.specificity.classes
       /\ x.specificity.tags < y.specificity.tags
    \/ /\ x.specificity = y.specificity
       /\ x.source_order <= y.source_order

\* C7 (as stated): when no important declaration and no inline declaration
\* sets a property of an element, the property has the value of the
\* non-important declaration of the matching stylesheet rule that is greatest
\* under (specificity, source order).
C7_GreatestRuleWins ==
    StylesComputed =>
        \A n \in ElementsOf(document[1]) : \A field \in CascadeFields :
            LET d == document[1]
                normal == MatchingSetters(d, n, PropertiesOf(field), FALSE)
                important == MatchingSetters(d, n, PropertiesOf(field), TRUE)
            IN (/\ normal # {}
                /\ important = {}
                /\ ~DeclarationsSet(InlineOf(d.nodes[n]), PropertiesOf(field)))
               => \E r \in normal :
                     /\ \A r2 \in normal : CascadeLessEq(r2, r)
                     /\ computed_styles[n][field] =
                           ApplyDeclarations(DefaultStyle, r.rule.declarations, "normal",
                                             Px(16))[field]

\* C8 (as stated): when an important declaration of a matching stylesheet rule
\* sets a property of an element and no inline declaration does, the property
\* has the value of an important declaration, whatever the non-important
\* declarations of the matching rules are.
C8_ImportantWins ==
    StylesComputed =>
        \A n \in ElementsOf(document[1]) : \A field \in CascadeFields :
            LET d == document[1]
                important == MatchingSetters(d, n, PropertiesOf(field), TRUE)
            IN (/\ important # {}
                /\ ~DeclarationsSet(InlineOf(d.nodes[n]), PropertiesOf(field)))
               => \E r \in important :
                     computed_styles[n][field] =
                        ApplyDeclarations(DefaultStyle, r.rule.declarations, "important",
                                          Px(16))[field]

\* C10: whenever the index exists it is the index of the current stylesheet
\* list; a step that changes the list leaves no index; a step that computes
\* styles when the index exists keeps that index; and the index comes to exist
\* only in a step that computes the styles from it.
C10_IndexCoherent ==
    /\ [](IsSome(selector_index) => selector_index[1] = build(stylesheets))
    /\ [][/\ stylesheets' # stylesheets => IsNone(selector_index')
          /\ (IsSome(selector_index) /\ <<computed_styles, document>>' # <<computed_styles, document>>)
                => selector_index' = selector_index
          /\ (IsNone(selector_index) /\ IsSome(selector_index'))
                => /\ document' # NoneV
                   /\ computed_styles' =
                         compute_node_styles(selector_index', document'[1],
                                             document'[1].root, NoneV)]_vars

\* C10 witness: styles were computed after the second stylesheet was added, on
\* an index that holds rules of both
C10_Witness ==
    /\ StylesComputed
    /\ Len(stylesheets) >= 2
    /\ stylesheets[1] # stylesheets[2]
    /\ selector_index[1] = build(stylesheets)
    /\ selector_index[1] # build(<<stylesheets[1]>>)
    /\ computed_styles # <<>>

---------------------------------------------------------------------------
\* One declaration applied to a style: the style is what for_tag gives an
\* element, the declaration one that parse_declaration can produce.

StylePool == {for_tag(tag) : tag \in {"div", "span", "h1", "a", "p"}}

PropertyPool ==
    {"display", "color", "background-color", "font-size", "font-weight", "text-align",
     "margin", "margin-top", "width", "cursor"}

ValuePool ==
    {Keyword("bogus"), Keyword("inline"), Keyword("red"), Keyword("bold"),
     Keyword("center"), Length(Px(10), "Px"), Length(200, "Em"), Number(Px(700)),
     Percentage(Px(50)), Auto, NoneValue, Length(Px(50), "Vw"), Length(Px(50), "Vh"),
     List(<<Length(Px(10), "Px"), Keyword("bogus")>>),
     List(<<Length(Px(10), "Px"), Length(Px(20), "Px")>>)}

ApplyInit ==
    /\ av_style \in StylePool
    /\ \E property \in PropertyPool, value \in ValuePool :
          av_decl = Declaration(property, value, FALSE)
    /\ av_result = NoneV
    /\ StyleIdle /\ BlockIdle /\ ScrollIdle /\ ImageIdle
    /\ FlexIdle /\ GridIdle /\ RenderIdle /\ MatchIdle /\ HistoryIdle /\ LoadIdle

\* style.apply_value(&decl.property, &decl.value, parent_font_size, vw, vh), as
\* compute_node_styles calls it for an element without a parent style
ApplyValue ==
    /\ IsNone(av_result)
    /\ av_result' = Some(apply_value(av_style, av_decl.property, av_decl.value, Px(16),
                                     sc_viewport_width, sc_viewport_height))
    /\ UNCHANGED <<av_style, av_decl>>
    /\ UNCHANGED <<styleVars, blockVars, scrollVars, imageVars, flexVars, gridVars, renderVars, matchVars, historyVars, loadVars>>

ApplyNext == ApplyValue

ApplySpec == ApplyInit /\ [][ApplyNext]_vars

\* the viewports (width, height) that Tab::resize hands to set_viewport
ResizedViewports == {<<Px(800), Px(600)>>, <<Px(400), Px(300)>>, <<Px(1000), Px(600)>>}

\* the style that computing again after set_viewport(viewport) gives
RecomputedFor(viewport) ==
    apply_value(av_style, av_decl.property, av_decl.value, Px(16), viewport[1], viewport[2])

\* C26: the computed style does not depend on the viewport: the style computed
\* before a resize, which Tab::resize keeps, is the style that computing again
\* for the new viewport gives, lengths in vh and vw included
C26_StylesViewportIndependent ==
    IsSome(av_result) => \A viewport \in ResizedViewports : RecomputedFor(viewport) = av_result[1]

\* the keywords of the display, font-weight and text-align properties that the
\* program knows
DisplayKeywords ==
    {"block", "inline", "inline-block", "none", "flex", "grid", "table", "table-row",
     "table-cell"}
FontWeightKeywords == {"bold", "normal"}
TextAlignKeywords == {"left", "center", "right", "justify"}

IsLength(value) ==
    IsSome(to_px(value, Px(16), sc_viewport_width, sc_viewport_height))

\* the value can be interpreted for the property
Interpretable(property, value) ==
    CASE property = "display" ->
            value.kind = "None" \/ (value.kind = "Keyword" /\ value.kw \in DisplayKeywords)
      [] property \in {"color", "background-color"} -> IsSome(to_color(value))
      [] property = "font-weight" ->
            value.kind = "Number"
            \/ (value.kind = "Keyword" /\ value.kw \in FontWeightKeywords)
      [] property = "text-align" ->
            value.kind = "Keyword" /\ value.kw \in TextAlignKeywords
      [] property \in {"font-size", "margin-top"} -> IsLength(value)
      [] property = "width" -> value.kind = "Auto" \/ IsLength(value)
      [] property = "margin" ->
            IF value.kind = "List"
            THEN /\ Len(value.items) \in 1..4
                 /\ \A i \in 1..Len(value.items) : IsLength(value.items[i])
            ELSE value.kind = "Auto" \/ IsLength(value)
      [] OTHER -> FALSE

\* C9 (as stated): applying a declaration whose property is unsupported or
\* whose value cannot be interpreted for the property leaves the whole style
\* as it was.
C9_FailSoft ==
    (IsSome(av_result) /\ ~Interpretable(av_decl.property, av_decl.value))
        => av_result[1] = av_style

---------------------------------------------------------------------------
\* layout/box_model.rs, render/painter.rs (Rect)

Rect(x, y, width, height) == [x |-> x, y |-> y, width |-> width, height |-> height]

\* Rect::bottom
bottom(rect) == rect.y + rect.height

EdgeSizes(top, right, bottom_, left) ==
    [top |-> top, right |-> right, bottom |-> bottom_, left |-> left]

\* EdgeSizes::horizontal, EdgeSizes::vertical
horizontal(e) == e.left + e.right
vertical(e) == e.top + e.bottom

\* BoxDimensions::new
BoxDimensions ==
    [content |-> Rect(0, 0, 0, 0), padding |-> EdgeSizes(0, 0, 0, 0),
     border |-> EdgeSizes(0, 0, 0, 0), margin |-> EdgeSizes(0, 0, 0, 0)]

\* BoxDimensions::padding_box
padding_box(dim) ==
    Rect(dim.content.x - dim.padding.left, dim.content.y - dim.padding.top,
         dim.content.width + horizontal(dim.padding),
         dim.content.height + vertical(dim.padding))

\* BoxDimensions::border_box
border_box(dim) ==
    LET padding == padding_box(dim)
    IN Rect(padding.x - dim.border.left, padding.y - dim.border.top,
            padding.width + horizontal(dim.border), padding.height + vertical(dim.border))

\* BoxDimensions::margin_box
margin_box(dim) ==
    LET border == border_box(dim)
    IN Rect(border.x - dim.margin.left, border.y - dim.margin.top,
            border.width + horizontal(dim.margin), border.height + vertical(dim.margin))

---------------------------------------------------------------------------
\* layout/tree.rs: layout

\* LayoutBox; intrinsic_size is Some([width, height]) in whole pixels
LayoutBox(box_type, style, kids, image_src, intrinsic_size) ==
    [box_type |-> box_type, style |-> style, dimensions |-> BoxDimensions,
     children |-> kids, image_src |-> image_src, intrinsic_size |-> intrinsic_size,
     texture_id |-> NoneV]

\* the margin, padding and border that layout_block and layout_image copy from
\* the style
WithEdges(dim, style) ==
    [dim EXCEPT
        !.margin = EdgeSizes(style.margin_top, style.margin_right, style.margin_bottom,
                             style.margin_left),
        !.padding = EdgeSizes(style.padding_top, style.padding_right,
                              style.padding_bottom, style.padding_left),
        !.border = EdgeSizes(style.border_top_width, style.border_right_width,
                             style.border_bottom_width, style.border_left_width)]

\* the content width with the borders left out of the subtraction
BlockContentWidthWithoutBorder(style, dim, containing_width) ==
    IF IsSome(style.width)
    THEN IF style.box_sizing = "ContentBox" THEN style.width[1]
         ELSE Max(style.width[1] - horizontal(dim.padding) - horizontal(dim.border), 0)
    ELSE containing_width - horizontal(dim.margin) - horizontal(dim.padding)

\* the content width of layout_block before the min/max constraints
BlockContentWidth(style, dim, containing_width) ==
    IF IsSome(style.width)
    THEN IF style.box_sizing = "ContentBox" THEN style.width[1]
         ELSE Max(style.width[1] - horizontal(dim.padding) - horizontal(dim.border), 0)
    ELSE containing_width - horizontal(dim.margin) - horizontal(dim.padding)
         - horizontal(dim.border)

\* the min/max constraints of layout_block: max(min) first, then min(max)
Constrain(size, min_size, max_size) ==
    LET at_least == IF IsSome(min_size) THEN Max(size, min_size[1]) ELSE size
    IN IF IsSome(max_size) THEN Min(at_least, max_size[1]) ELSE at_least

\* layout_image; a quotient of two f32 is rounded down to the hundredth
layout_image(layout_box, containing_width) ==
    LET style == layout_box.style
        dim == WithEdges(layout_box.dimensions, style)
        intrinsic_width == IF IsSome(layout_box.intrinsic_size)
                           THEN Px(layout_box.intrinsic_size[1].width) ELSE Px(300)
        intrinsic_height == IF IsSome(layout_box.intrinsic_size)
                            THEN Px(layout_box.intrinsic_size[1].height) ELSE Px(150)
        available_width == containing_width - horizontal(dim.margin)
                           - horizontal(dim.padding) - horizontal(dim.border)
        final ==
            IF IsSome(style.width) /\ IsSome(style.height)
            THEN <<style.width[1], style.height[1]>>
            ELSE IF IsSome(style.width)
            THEN <<style.width[1],
                   IF intrinsic_width > 0
                   THEN (style.width[1] * intrinsic_height) \div intrinsic_width
                   ELSE style.width[1] \div 2>>
            ELSE IF IsSome(style.height)
            THEN <<IF intrinsic_height > 0
                   THEN (style.height[1] * intrinsic_width) \div intrinsic_height
                   ELSE style.height[1] * 2,
                   style.height[1]>>
            ELSE IF intrinsic_width > available_width /\ available_width > 0
            THEN <<available_width, (intrinsic_height * available_width) \div intrinsic_width>>
            ELSE <<intrinsic_width, intrinsic_height>>
    IN [layout_box EXCEPT
           !.dimensions = [dim EXCEPT !.content.width = final[1],
                                      !.content.height = final[2]]]

\* TextRenderer::measure_text, an oracle: (width, height) of the texts of the
\* model
measure_text(text, font_size) ==
    CASE text = "hi" -> <<Px(16), Px(19)>>
      [] OTHER -> <<0, 0>>

\* LayoutTree::layout_text
layout_text(layout_box, containing_width) ==
    IF IsSome(layout_box.text_content)
    THEN LET size == measure_text(layout_box.text_content[1], layout_box.style.font_size)
         IN [layout_box EXCEPT !.dimensions.content.width = size[1],
                               !.dimensions.content.height = size[2]]
    ELSE layout_box

RECURSIVE layout(_, _), layout_block(_, _), LayoutChildren(_, _, _, _)

\* the loop over the children in layout_block: the children laid out and
\* placed, child_y being the cursor before the first of them
LayoutChildren(kids, final_width, dim, child_y) ==
    IF kids = <<>> THEN <<>>
    ELSE LET laid == layout(Head(kids), final_width)
             child == [laid EXCEPT
                          !.dimensions.content.x =
                              dim.padding.left + dim.border.left
                              + laid.dimensions.margin.left,
                          !.dimensions.content.y =
                              child_y + dim.padding.top + dim.border.top
                              + laid.dimensions.margin.top]
         IN <<child>> \o LayoutChildren(Tail(kids), final_width, dim,
                                        bottom(margin_box(child.dimensions)))

\* LayoutTree::layout_block
layout_block(layout_box, containing_width) ==
    LET style == layout_box.style
        dim == WithEdges(layout_box.dimensions, style)
        final_width == Constrain(BlockContentWidth(style, dim, containing_width),
                                 style.min_width, style.max_width)
        kids == LayoutChildren(layout_box.children, final_width, dim, 0)
        child_y == IF kids = <<>> THEN 0
                   ELSE bottom(margin_box(kids[Len(kids)].dimensions))
        content_height_ ==
            IF IsSome(style.height)
            THEN IF style.box_sizing = "ContentBox" THEN style.height[1]
                 ELSE Max(style.height[1] - vertical(dim.padding) - vertical(dim.border), 0)
            ELSE child_y
        final_height == Constrain(content_height_, style.min_height, style.max_height)
    IN [layout_box EXCEPT
           !.dimensions = [dim EXCEPT !.content.width = final_width,
                                      !.content.height = final_height],
           !.children = kids]

\* LayoutTree::layout, for block, inline-block, image and text boxes
layout(layout_box, containing_width) ==
    IF layout_box.box_type = "Image" THEN layout_image(layout_box, containing_width)
    ELSE IF layout_box.box_type = "Text" THEN layout_text(layout_box, containing_width)
    ELSE layout_block(layout_box, containing_width)

---------------------------------------------------------------------------
\* One layout run on a block box with block children.

\* edges as (top, right, bottom, left)
NoEdges == EdgeSizes(0, 0, 0, 0)
EvenEdges == EdgeSizes(Px(10), Px(10), Px(10), Px(10))
UnevenEdges == EdgeSizes(Px(10), 0, Px(5), Px(20))
ThinEdges == EdgeSizes(Px(2), Px(2), Px(2), Px(2))

StyleWithEdges(margin, padding, border) ==
    [DefaultStyle EXCEPT
        !.margin_top = margin.top, !.margin_right = margin.right,
        !.margin_bottom = margin.bottom, !.margin_left = margin.left,
        !.padding_top = padding.top, !.padding_right = padding.right,
        !.padding_bottom = padding.bottom, !.padding_left = padding.left,
        !.border_top_width = border.top, !.border_right_width = border.right,
        !.border_bottom_width = border.bottom, !.border_left_width = border.left]

\* children: blocks of height 20px and automatic width
ChildBoxes ==
    {LayoutBox("Block",
               [StyleWithEdges(margin, padding, NoEdges) EXCEPT !.height = Some(Px(20))],
               <<>>, NoneV, NoneV) :
        margin \in {NoEdges, EvenEdges}, padding \in {NoEdges, UnevenEdges}}

\* the most children of the box
MaxChildren == 2

ChildLists == UNION {[1..n -> ChildBoxes] : n \in 0..MaxChildren}

\* the box: automatic width and height, with or without min-width, max-width
ParentStyles ==
    {[StyleWithEdges(margin, padding, border) EXCEPT
         !.min_width = min_width, !.max_width = max_width] :
        margin \in {NoEdges, EvenEdges}, padding \in {NoEdges, EvenEdges, UnevenEdges},
        border \in {NoEdges, ThinEdges},
        min_width \in {NoneV, Some(Px(500))}, max_width \in {NoneV, Some(Px(200))}}

BlockInit ==
    /\ \E style \in ParentStyles, kids \in ChildLists :
          lb_box = LayoutBox("Block", style, kids, NoneV, NoneV)
    /\ lb_containing_width \in {Px(400), Px(800)}
    /\ lb_done = FALSE
    /\ StyleIdle /\ ApplyIdle /\ ScrollIdle /\ ImageIdle
    /\ FlexIdle /\ GridIdle /\ RenderIdle /\ MatchIdle /\ HistoryIdle /\ LoadIdle

\* self.layout(&mut root_box, containing_width, ..)
LayoutBlock ==
    /\ ~lb_done
    /\ lb_box' = layout(lb_box, lb_containing_width)
    /\ lb_done' = TRUE
    /\ UNCHANGED lb_containing_width
    /\ UNCHANGED <<styleVars, applyVars, scrollVars, imageVars, flexVars, gridVars, renderVars, matchVars, historyVars, loadVars>>

BlockNext == LayoutBlock

BlockSpec == BlockInit /\ [][BlockNext]_vars

\* the Y cursor after the first i children
CursorAfter(kids, i) == IF i = 0 THEN 0 ELSE bottom(margin_box(kids[i].dimensions))

RECURSIVE SumMarginBoxHeights(_)
SumMarginBoxHeights(kids) ==
    IF kids = <<>> THEN 0
    ELSE margin_box(Head(kids).dimensions).height + SumMarginBoxHeights(Tail(kids))

\* C4 (as stated): after layout the cursor has advanced by each child's
\* margin-box height, and a box without explicit height has the sum of its
\* children's margin-box heights as content height.
C4_CursorAdvancesByMarginBox ==
    lb_done =>
        /\ \A i \in 1..Len(lb_box.children) :
              CursorAfter(lb_box.children, i) - CursorAfter(lb_box.children, i - 1)
                 = margin_box(lb_box.children[i].dimensions).height
        /\ IsNone(lb_box.style.height) =>
              lb_box.dimensions.content.height = SumMarginBoxHeights(lb_box.children)

\* content width plus horizontal margins, padding and borders
OuterWidth(dim) ==
    dim.content.width + horizontal(dim.margin) + horizontal(dim.padding)
    + horizontal(dim.border)

\* the boxes laid out, each with the width of its containing block
LaidOutBoxes ==
    {<<lb_box, lb_containing_width>>}
    \cup {<<lb_box.children[i], lb_box.dimensions.content.width>> :
             i \in 1..Len(lb_box.children)}

AutoWidth(b, containing_width) ==
    containing_width - horizontal(b.dimensions.margin) - horizontal(b.dimensions.padding)
    - horizontal(b.dimensions.border)

---------------------------------------------------------------------------
\* layout/tree.rs: scrolling.  Of the layout the scroll state sees the root's
\* margin-box height (content_height) and the viewport height.

ScrollAnimator(current, target, animating) ==
    [current |-> current, target |-> target, animating |-> animating]

\* ScrollbarState
ScrollbarState(kind, start_y, start_scroll) ==
    [kind |-> kind, start_y |-> start_y, start_scroll |-> start_scroll]
Idle == ScrollbarState("Idle", 0, 0)
Dragging(start_y, start_scroll) == ScrollbarState("Dragging", start_y, start_scroll)

\* LayoutTree::max_scroll
max_scroll(ch, vh) == Max(ch - vh, 0)

\* 1.0 - (-lerp_speed * dt).exp() in percent, for frame times in milliseconds
LerpPercent(dt) ==
    CASE dt = 16 -> 17
      [] dt = 58 -> 50
      [] dt = 2000 -> 100

\* update without the snap to the target: the lerp alone
animator_update_without_snap(a, dt, max) ==
    IF ~a.animating THEN a
    ELSE LET target == Clamp(a.target, 0, max)
         IN ScrollAnimator(Clamp(a.current + ((target - a.current) * LerpPercent(dt)) \div 100,
                                 0, max),
                           target, TRUE)

\* ScrollAnimator::update: the animator it leaves (the returned flag is its
\* animating field)
animator_update(a, dt, max) ==
    IF ~a.animating THEN a
    ELSE LET target == Clamp(a.target, 0, max)
             diff == target - a.current
         IN IF Abs(diff) < 50
            THEN ScrollAnimator(target, target, FALSE)
            ELSE ScrollAnimator(Clamp(a.current + (diff * LerpPercent(dt)) \div 100, 0, max),
                                target, TRUE)

\* scroll_by without the clamp of the target
animator_scroll_by_unclamped(a, delta, max) ==
    ScrollAnimator(a.current, a.target + delta, TRUE)

\* ScrollAnimator::scroll_by
animator_scroll_by(a, delta, max) ==
    ScrollAnimator(a.current, Clamp(a.target + delta, 0, max), TRUE)

\* ScrollAnimator::scroll_to
animator_scroll_to(a, position, max) ==
    ScrollAnimator(a.current, Clamp(position, 0, max), TRUE)

\* ScrollAnimator::scroll_immediate
animator_scroll_immediate(a, position, max) ==
    ScrollAnimator(Clamp(position, 0, max), Clamp(position, 0, max), FALSE)

\* x * y / z for heights y and z of whole pixels, without leaving 32 bits
MulDiv(x, y, z) == (x * (y \div 100)) \div (z \div 100)

\* the height of LayoutTree::scrollbar_thumb_rect; min_thumb_height is 30.0
thumb_height(ch, vh) ==
    IF ch <= vh THEN 0 ELSE Max(MulDiv(vh, vh, ch), Px(30))

\* update_thumb_drag by the delta from the current scroll position and not
\* from the position at the start of the drag
thumb_drag_position_from_current(state, mouse_y, ch, vh) ==
    IF state.kind # "Dragging" THEN NoneV
    ELSE IF ch <= vh THEN NoneV
    ELSE IF vh - thumb_height(ch, vh) <= 0 THEN NoneV
    ELSE Some(scroll_y
              + MulDiv(mouse_y - state.start_y, ch - vh, vh - thumb_height(ch, vh)))

\* the position update_thumb_drag scrolls to, None when it returns early
thumb_drag_position(state, mouse_y, ch, vh) ==
    IF state.kind # "Dragging" THEN NoneV
    ELSE IF ch <= vh THEN NoneV
    ELSE IF vh - thumb_height(ch, vh) <= 0 THEN NoneV
    ELSE Some(state.start_scroll
              + MulDiv(mouse_y - state.start_y, ch - vh, vh - thumb_height(ch, vh)))

ContentHeights == {Px(30), Px(100)}
ViewportHeights == {Px(40), Px(100)}
ScrollDeltas == {-Px(5000), -Px(20), Px(20), Px(5000)}
ScrollPositions == {-Px(5000), 0, Px(40), Px(5000)}
MouseYs == {Px(10), Px(15), Px(20)}
\* a frame that took two seconds: the lerp factor is 1.0 in f32 for every frame
\* time above 1.45 s, so the values stay on the grid of the scroll steps
FrameTimes == {2000}

ScrollInit ==
    /\ content_height = 0
    /\ viewport_height = Px(40)
    /\ scroll_y = 0
    /\ scroll_animator = ScrollAnimator(0, 0, FALSE)
    /\ scrollbar_state = Idle
    /\ StyleIdle /\ ApplyIdle /\ BlockIdle /\ ImageIdle
    /\ FlexIdle /\ GridIdle /\ RenderIdle /\ MatchIdle /\ HistoryIdle /\ LoadIdle

\* LayoutTree::build on a document (page load, image arrival): a new root, so
\* a new content height; the scroll state is not touched
Build ==
    \E ch \in ContentHeights :
        /\ content_height' = ch
        /\ UNCHANGED <<viewport_height, scroll_y, scroll_animator, scrollbar_state>>
        /\ UNCHANGED <<styleVars, applyVars, blockVars, imageVars, flexVars, gridVars, renderVars, matchVars, historyVars, loadVars>>

\* Tab::resize to another height at the same width: the viewport height is
\* set and the same layout rebuilt
Resize ==
    \E vh \in ViewportHeights :
        /\ content_height # 0
        /\ viewport_height' = vh
        /\ UNCHANGED <<content_height, scroll_y, scroll_animator, scrollbar_state>>
        /\ UNCHANGED <<styleVars, applyVars, blockVars, imageVars, flexVars, gridVars, renderVars, matchVars, historyVars, loadVars>>

\* LayoutTree::scroll
Scroll ==
    \E delta \in ScrollDeltas :
        /\ scroll_y' = Clamp(scroll_y + delta, 0, max_scroll(content_height, viewport_height))
        /\ UNCHANGED <<content_height, viewport_height, scroll_animator, scrollbar_state>>
        /\ UNCHANGED <<styleVars, applyVars, blockVars, imageVars, flexVars, gridVars, renderVars, matchVars, historyVars, loadVars>>

\* LayoutTree::update_scroll
UpdateScroll ==
    \E dt \in FrameTimes :
        /\ scroll_animator' = animator_update(scroll_animator, dt,
                                              max_scroll(content_height, viewport_height))
        /\ scroll_y' = scroll_animator'.current
        /\ UNCHANGED <<content_height, viewport_height, scrollbar_state>>
        /\ UNCHANGED <<styleVars, applyVars, blockVars, imageVars, flexVars, gridVars, renderVars, matchVars, historyVars, loadVars>>

\* LayoutTree::scroll_smooth
ScrollSmooth ==
    \E delta \in ScrollDeltas :
        /\ scroll_animator' = animator_scroll_by(scroll_animator, delta,
                                                 max_scroll(content_height, viewport_height))
        /\ UNCHANGED <<content_height, viewport_height, scroll_y, scrollbar_state>>
        /\ UNCHANGED <<styleVars, applyVars, blockVars, imageVars, flexVars, gridVars, renderVars, matchVars, historyVars, loadVars>>

\* LayoutTree::scroll_to
ScrollTo ==
    \E position \in ScrollPositions :
        /\ scroll_animator' = animator_scroll_to(scroll_animator, position,
                                                 max_scroll(content_height, viewport_height))
        /\ UNCHANGED <<content_height, viewport_height, scroll_y, scrollbar_state>>
        /\ UNCHANGED <<styleVars, applyVars, blockVars, imageVars, flexVars, gridVars, renderVars, matchVars, historyVars, loadVars>>

\* LayoutTree::scroll_immediate
ScrollImmediate ==
    \E position \in ScrollPositions :
        /\ scroll_animator' = animator_scroll_immediate(scroll_animator, position,
                                  max_scroll(content_height, viewport_height))
        /\ scroll_y' = scroll_animator'.current
        /\ UNCHANGED <<content_height, viewport_height, scrollbar_state>>
        /\ UNCHANGED <<styleVars, applyVars, blockVars, imageVars, flexVars, gridVars, renderVars, matchVars, historyVars, loadVars>>

\* LayoutTree::begin_thumb_drag
BeginThumbDrag ==
    \E mouse_y \in MouseYs :
        /\ scrollbar_state' = Dragging(mouse_y, scroll_y)
        /\ UNCHANGED <<content_height, viewport_height, scroll_y, scroll_animator>>
        /\ UNCHANGED <<styleVars, applyVars, blockVars, imageVars, flexVars, gridVars, renderVars, matchVars, historyVars, loadVars>>

\* LayoutTree::update_thumb_drag
UpdateThumbDrag ==
    \E mouse_y \in MouseYs :
        LET position == thumb_drag_position(scrollbar_state, mouse_y, content_height,
                                            viewport_height)
        IN /\ IsSome(position)
           /\ scroll_animator' = animator_scroll_immediate(scroll_animator, position[1],
                                     max_scroll(content_height, viewport_height))
           /\ scroll_y' = scroll_animator'.current
           /\ UNCHANGED <<content_height, viewport_height, scrollbar_state>>
           /\ UNCHANGED <<styleVars, applyVars, blockVars, imageVars, flexVars, gridVars, renderVars, matchVars, historyVars, loadVars>>

\* LayoutTree::end_thumb_drag
EndThumbDrag ==
    /\ scrollbar_state.kind = "Dragging"
    /\ scrollbar_state' = Idle
    /\ UNCHANGED <<content_height, viewport_height, scroll_y, scroll_animator>>
    /\ UNCHANGED <<styleVars, applyVars, blockVars, imageVars, flexVars, gridVars, renderVars, matchVars, historyVars, loadVars>>

ScrollNext ==
    \/ Build \/ Resize \/ Scroll \/ UpdateScroll \/ ScrollSmooth \/ ScrollTo
    \/ ScrollImmediate \/ BeginThumbDrag \/ UpdateThumbDrag \/ EndThumbDrag

ScrollSpec == ScrollInit /\ [][ScrollNext]_vars

\* C23: after LayoutTree::scroll, update_scroll, scroll_immediate and
\* update_thumb_drag the scroll position is the animator's current position
C23_ScrollAgreesWithAnimator ==
    [][(Scroll \/ UpdateScroll \/ ScrollImmediate \/ UpdateThumbDrag)
           => scroll_y' = scroll_animator'.current]_vars

\* C3 (as stated): whenever no scroll animation is in progress, scroll_y lies
\* in [0, max(0, content_height - viewport_height)] of the current content
\* and viewport heights.
C3_ScrollInRange ==
    ~scroll_animator.animating =>
        /\ 0 <= scroll_y
        /\ scroll_y <= Max(0, content_height - viewport_height)

\* the animator's target lies in [0, max_scroll] of the current heights
TargetInRange(a) ==
    /\ 0 <= a.target
    /\ a.target <= max_scroll(content_height, viewport_height)

\* C11: every scroll_smooth (ScrollAnimator::scroll_by) and scroll_to step,
\* however large its argument, leaves the target in [0, max_scroll] and the
\* animating flag set; every scroll_immediate step (the thumb drag's too) leaves
\* current = target in [0, max_scroll] and the flag cleared.
C11_ScrollClamp ==
    [][ /\ (ScrollSmooth \/ ScrollTo) =>
              (TargetInRange(scroll_animator') /\ scroll_animator'.animating)
        /\ (ScrollImmediate \/ UpdateThumbDrag) =>
              /\ TargetInRange(scroll_animator')
              /\ scroll_animator'.current = scroll_animator'.target
              /\ ~scroll_animator'.animating ]_vars

\* C11 witness: an animation started towards the far end of a scrollable page
\* (a target clamped down to max_scroll) while the position is still at the top
C11_Witness ==
    /\ scroll_animator.animating
    /\ max_scroll(content_height, viewport_height) > 0
    /\ scroll_animator.target = max_scroll(content_height, viewport_height)
    /\ scroll_animator.current = 0

---------------------------------------------------------------------------
\* layout/tree.rs, main.rs: the frames that follow the last scroll call.  The
\* frame loop calls update_scroll once per frame, and sleeps so that a frame
\* takes 16.667 ms or more.

AnimationFrameTimes == {16, 58, 2000}
AnimationStarts == {0, Px(20), Px(60)}
AnimationTargets == {0, Px(40), Px(60), Px(5000)}

\* a page of 100px in a viewport of 40px, an animation under way: some position,
\* and the target a scroll_to left
ConvergeInit ==
    /\ content_height = Px(100)
    /\ viewport_height = Px(40)
    /\ \E current \in AnimationStarts, position \in AnimationTargets :
          /\ scroll_y = current
          /\ scroll_animator =
                animator_scroll_to(ScrollAnimator(current, current, FALSE), position,
                                   max_scroll(content_height, viewport_height))
    /\ scrollbar_state = Idle
    /\ StyleIdle /\ ApplyIdle /\ BlockIdle /\ ImageIdle
    /\ FlexIdle /\ GridIdle /\ RenderIdle /\ MatchIdle /\ HistoryIdle /\ LoadIdle

\* LayoutTree::update_scroll, once per frame of the main loop
UpdateScrollFrame ==
    \E dt \in AnimationFrameTimes :
        /\ scroll_animator' = animator_update(scroll_animator, dt,
                                              max_scroll(content_height, viewport_height))
        /\ scroll_y' = scroll_animator'.current
        /\ UNCHANGED <<content_height, viewport_height, scrollbar_state>>
        /\ UNCHANGED <<styleVars, applyVars, blockVars, imageVars, flexVars, gridVars, renderVars, matchVars, historyVars, loadVars>>

ConvergeNext == UpdateScrollFrame

ConvergeSpec == ConvergeInit /\ [][ConvergeNext]_vars /\ WF_vars(UpdateScrollFrame)

---------------------------------------------------------------------------
\* layout/tree.rs: a thumb drag over a layout and a viewport that stay as they
\* are.  A viewport of 20px is lower than the thumb's least height.

DragContentHeights == {Px(30), Px(100)}
DragViewportHeights == {Px(20), Px(40)}

DragInit ==
    /\ content_height \in DragContentHeights
    /\ viewport_height \in DragViewportHeights
    /\ scroll_y = 0
    /\ scroll_animator = ScrollAnimator(0, 0, FALSE)
    /\ scrollbar_state = Idle
    /\ StyleIdle /\ ApplyIdle /\ BlockIdle /\ ImageIdle
    /\ FlexIdle /\ GridIdle /\ RenderIdle /\ MatchIdle /\ HistoryIdle /\ LoadIdle

DragNext ==
    \/ Scroll \/ UpdateScroll \/ ScrollSmooth
    \/ BeginThumbDrag \/ UpdateThumbDrag \/ EndThumbDrag

DragSpec == DragInit /\ [][DragNext]_vars

\* scroll_y after update_thumb_drag(mouse_y) called in the current state
ScrollAfterThumbDrag(mouse_y) ==
    LET position == thumb_drag_position(scrollbar_state, mouse_y, content_height,
                                        viewport_height)
    IN IF IsSome(position)
       THEN animator_scroll_immediate(scroll_animator, position[1],
                                      max_scroll(content_height, viewport_height)).current
       ELSE scroll_y

\* thumb_travel: the viewport height less the thumb's height
ThumbTravel == viewport_height - thumb_height(content_height, viewport_height)

\* x * y / z for z of either sign
SignedMulDiv(x, y, z) == IF z < 0 THEN MulDiv(-x, y, -z) ELSE MulDiv(x, y, z)

\* clamp(start_scroll + (mouse_y - start_y) / thumb_travel * max_scroll, 0,
\* max_scroll)
StatedDragPosition(mouse_y) ==
    Clamp(scrollbar_state.start_scroll
          + SignedMulDiv(mouse_y - scrollbar_state.start_y,
                         max_scroll(content_height, viewport_height), ThumbTravel),
          0, max_scroll(content_height, viewport_height))

\* C19 (as stated): while a drag is active, after update_thumb_drag(mouse_y)
\* the scroll position is clamp(start_scroll + (mouse_y - start_y) /
\* thumb_travel * max_scroll, 0, max_scroll).
C19_DragPosition ==
    scrollbar_state.kind = "Dragging" =>
        \A mouse_y \in MouseYs : ScrollAfterThumbDrag(mouse_y) = StatedDragPosition(mouse_y)

\* C19 (amended): while a drag is active, after update_thumb_drag(mouse_y) the
\* scroll position is that of the formula when the content is higher than the
\* viewport and the thumb has room to travel, whatever calls came since
\* begin_thumb_drag; otherwise the call leaves the scroll position as it is.
C19_DragPositionWhenThumbTravels ==
    scrollbar_state.kind = "Dragging" =>
        \A mouse_y \in MouseYs :
            IF content_height > viewport_height /\ ThumbTravel > 0
            THEN ScrollAfterThumbDrag(mouse_y) = StatedDragPosition(mouse_y)
            ELSE ScrollAfterThumbDrag(mouse_y) = scroll_y

\* C19 witness: a drag begun at 10px at the top of the page has been moved to
\* 15px, half of the thumb's travel of 10px, and the page is at half of
\* max_scroll
C19_Witness ==
    /\ scrollbar_state = Dragging(Px(10), 0)
    /\ content_height = Px(100) /\ viewport_height = Px(40)
    /\ scroll_y = Px(30)
    /\ scroll_animator = ScrollAnimator(Px(30), Px(30), FALSE)

---------------------------------------------------------------------------
\* app/tab.rs, render/image_cache.rs, layout/tree.rs: images.  The document is
\* a body whose children are img elements.

ImageSize(width, height) == [width |-> width, height |-> height]

\* ImageState
ImageState(kind, texture_id, size) == [kind |-> kind, texture_id |-> texture_id, size |-> size]
Loading == ImageState("Loading", 0, ImageSize(0, 0))
Loaded(texture_id, size) == ImageState("Loaded", texture_id, size)
Failed == ImageState("Failed", 0, ImageSize(0, 0))

\* ImageCache: the images, and the next_id of its TextureManager
ImageCache(images, next_id) == [images |-> images, next_id |-> next_id]

\* ImageCache::contains
cache_contains(cache, url) == url \in DOMAIN cache.images

\* ImageCache::get_texture_id
get_texture_id(cache, url) ==
    IF url \in DOMAIN cache.images /\ cache.images[url].kind = "Loaded"
    THEN Some(cache.images[url].texture_id) ELSE NoneV

\* ImageCache::get_size
get_size(cache, url) ==
    IF url \in DOMAIN cache.images /\ cache.images[url].kind = "Loaded"
    THEN Some(cache.images[url].size) ELSE NoneV

\* the HashMap insert of start_loading, store_image and store_error
Insert(images, url, state) ==
    [u \in DOMAIN images \cup {url} |-> IF u = url THEN state ELSE images[u]]

\* ImageCache::start_loading
start_loading(cache, url) == ImageCache(Insert(cache.images, url, Loading), cache.next_id)

\* ImageCache::store_image, with TextureManager::load_image
store_image(cache, url, size) ==
    ImageCache(Insert(cache.images, url, Loaded(cache.next_id, size)), cache.next_id + 1)

\* ImageCache::store_error
store_error(cache, url) == ImageCache(Insert(cache.images, url, Failed), cache.next_id)

\* an img element: its src, its width and height attributes as parse::<u32>
\* reads them, and its computed style
Img(src, width, height, style) ==
    [src |-> src, width |-> width, height |-> height, style |-> style]

\* the img arm of build_layout_tree: new_image and the attribute hints
ImageBox(img) ==
    LET hinted == IF IsSome(img.width) THEN Some(ImageSize(img.width[1], 0)) ELSE NoneV
        sized == IF IsSome(img.height)
                 THEN IF IsSome(hinted)
                      THEN Some(ImageSize(hinted[1].width, img.height[1]))
                      ELSE Some(ImageSize(0, img.height[1]))
                 ELSE hinted
    IN LayoutBox("Image", img.style, <<>>, Some(img.src), sized)

\* LayoutTree::build: the root it leaves
layout_tree_build(images, viewport_width) ==
    LET root_box == LayoutBox("Block", DefaultStyle,
                              [i \in 1..Len(images) |-> ImageBox(images[i])], NoneV, NoneV)
        laid == layout(root_box, viewport_width)
    IN [laid EXCEPT
           !.dimensions.content.x =
               laid.dimensions.margin.left + laid.dimensions.border.left
               + laid.dimensions.padding.left,
           !.dimensions.content.y =
               laid.dimensions.margin.top + laid.dimensions.border.top
               + laid.dimensions.padding.top]

\* the resolution of a src against the tab's url, on the strings of the model
resolve_url(src) ==
    CASE src = "a.png" -> Some("http://h/a.png")
      [] src = "b.png" -> Some("http://h/b.png")
      [] OTHER -> Some(src)

RECURSIVE resolve_image_urls_recursive(_)
\* LayoutTree::resolve_image_urls_recursive: the box with the urls resolved
resolve_image_urls_recursive(layout_box) ==
    [layout_box EXCEPT
        !.image_src = IF IsSome(@) /\ IsSome(resolve_url(@[1])) THEN resolve_url(@[1])
                      ELSE @,
        !.children = [i \in 1..Len(@) |-> resolve_image_urls_recursive(@[i])]]

RECURSIVE PushNew(_, _)
\* if !urls.contains(&resolved_url) { urls.push(resolved_url) }, for each of more
PushNew(urls, more) ==
    IF more = <<>> THEN urls
    ELSE PushNew(IF \E i \in 1..Len(urls) : urls[i] = Head(more) THEN urls
                 ELSE Append(urls, Head(more)),
                 Tail(more))

RECURSIVE resolved_urls(_)
\* the list resolve_image_urls returns, for a box whose urls are resolved
resolved_urls(layout_box) ==
    LET RECURSIVE OfChildren(_, _)
        OfChildren(urls, kids) ==
            IF kids = <<>> THEN urls
            ELSE OfChildren(PushNew(urls, resolved_urls(Head(kids))), Tail(kids))
    IN OfChildren(IF IsSome(layout_box.image_src) THEN <<layout_box.image_src[1]>> ELSE <<>>,
                  layout_box.children)

RECURSIVE update_image_texture_recursive(_, _, _, _)
\* LayoutTree::update_image_texture_recursive
update_image_texture_recursive(layout_box, url, texture_id, size) ==
    LET hit == layout_box.image_src = Some(url)
    IN [layout_box EXCEPT
           !.texture_id = IF hit THEN Some(texture_id) ELSE @,
           !.intrinsic_size = IF hit /\ IsNone(@) THEN Some(size) ELSE @,
           !.children = [i \in 1..Len(@) |->
                            update_image_texture_recursive(@[i], url, texture_id, size)]]

\* Tab::collect_pending_images: the resolved urls that the cache does not hold
collect_pending_images(root, cache) ==
    SelectSeq(resolved_urls(root), LAMBDA url : ~cache_contains(cache, url))

RECURSIVE LoadEach(_, _, _, _)
\* the loop of load_images_sync over the pending urls: the cache and the root
\* it leaves; outcomes gives for each url the decoded size, or None when the
\* fetch or the decoding fails
LoadEach(cache, root, pending, outcomes) ==
    IF pending = <<>> THEN [cache |-> cache, root |-> root]
    ELSE LET url == Head(pending)
             loading == start_loading(cache, url)
             stored == store_image(loading, url, outcomes[url][1])
         IN IF IsSome(outcomes[url])
            THEN LoadEach(stored,
                          IF IsSome(get_texture_id(stored, url))
                          THEN update_image_texture_recursive(
                                   root, url, get_texture_id(stored, url)[1],
                                   outcomes[url][1])
                          ELSE root,
                          Tail(pending), outcomes)
            ELSE LoadEach(store_error(loading, url), root, Tail(pending), outcomes)

RECURSIVE ReapplyTextures(_, _, _)
\* the loop over image_cache.urls() after the rebuild; the order of the urls
\* does not matter, each url updating the boxes of that url only
ReapplyTextures(root, cache, urls) ==
    IF urls = {} THEN root
    ELSE LET url == CHOOSE u \in urls : TRUE
             updated == IF IsSome(get_texture_id(cache, url)) /\ IsSome(get_size(cache, url))
                        THEN update_image_texture_recursive(
                                 root, url, get_texture_id(cache, url)[1],
                                 get_size(cache, url)[1])
                        ELSE root
         IN ReapplyTextures(updated, cache, urls \ {url})

\* Tab::load_images_sync: the cache and the root it leaves
load_images_sync(images, root, cache, pending, viewport_width, outcomes) ==
    LET loaded == LoadEach(cache, root, pending, outcomes)
    IN IF Len(pending) > 0
       THEN LET rebuilt == resolve_image_urls_recursive(
                               layout_tree_build(images, viewport_width))
            IN [cache |-> loaded.cache,
                root |-> ReapplyTextures(rebuilt, loaded.cache, DOMAIN loaded.cache.images)]
       ELSE loaded

---------------------------------------------------------------------------
\* A tab loads a page of images and then the images.

PlainStyle == for_tag("img")

\* <img src>, <img src width=50 height=40> (the attributes are presentational
\* too), and an img with a CSS width
ImgPool ==
    {Img("a.png", NoneV, NoneV, PlainStyle),
     Img("b.png", NoneV, NoneV, PlainStyle),
     Img("a.png", Some(50), Some(40),
         [PlainStyle EXCEPT !.width = Some(Px(50)), !.height = Some(Px(40))]),
     Img("http://h/c.png", NoneV, NoneV, [PlainStyle EXCEPT !.width = Some(Px(100))])}

\* the most img elements of the document
MaxImages == 2

\* what fetching and decoding an image gives: its size, or a failure
Outcomes == {Some(ImageSize(100, 50)), Some(ImageSize(200, 100)), NoneV}

ImageInit ==
    /\ tab_images \in UNION {[1..n -> ImgPool] : n \in 1..MaxImages}
    /\ tab_viewport_width \in {Px(400), Px(800)}
    /\ layout_root = NoneV
    /\ image_cache = ImageCache(<<>>, 0)
    /\ pending_images = <<>>
    /\ StyleIdle /\ ApplyIdle /\ BlockIdle /\ ScrollIdle
    /\ FlexIdle /\ GridIdle /\ RenderIdle /\ MatchIdle /\ HistoryIdle /\ LoadIdle

\* the end of Tab::load_html, for the first load of the page or a reload of
\* it: the layout is built and the pending images are collected
LoadHtml ==
    /\ LET root == resolve_image_urls_recursive(
                       layout_tree_build(tab_images, tab_viewport_width))
       IN /\ layout_root' = Some(root)
          /\ pending_images' = collect_pending_images(root, image_cache)
    /\ UNCHANGED <<tab_images, image_cache, tab_viewport_width>>
    /\ UNCHANGED <<styleVars, applyVars, blockVars, scrollVars, flexVars, gridVars, renderVars, matchVars, historyVars, loadVars>>

\* Tab::load_images_sync
LoadImagesSync ==
    /\ IsSome(layout_root)
    /\ pending_images # <<>>
    /\ \E outcomes \in [Range(pending_images) -> Outcomes] :
          LET done == load_images_sync(tab_images, layout_root[1], image_cache,
                                       pending_images, tab_viewport_width, outcomes)
          IN /\ layout_root' = Some(done.root)
             /\ image_cache' = done.cache
    /\ pending_images' = <<>>
    /\ UNCHANGED <<tab_images, tab_viewport_width>>
    /\ UNCHANGED <<styleVars, applyVars, blockVars, scrollVars, flexVars, gridVars, renderVars, matchVars, historyVars, loadVars>>

\* the widths a window resize gives the tab
ResizeWidths == {Px(400), Px(800)}

\* Tab::resize of a tab that has loaded its page: the layout is built again;
\* no url is resolved, no texture applied and no pending image collected
TabResize ==
    /\ IsSome(layout_root)
    /\ \E width \in ResizeWidths :
          /\ tab_viewport_width' = width
          /\ layout_root' = Some(layout_tree_build(tab_images, width))
    /\ UNCHANGED <<tab_images, image_cache, pending_images>>
    /\ UNCHANGED <<styleVars, applyVars, blockVars, scrollVars, flexVars, gridVars, renderVars, matchVars, historyVars, loadVars>>

\* the frame loop calls load_pending_images only when has_pending_images
ImageNext == LoadHtml \/ LoadImagesSync \/ TabResize

ImageSpec == ImageInit /\ [][ImageNext]_vars

\* C5 (as stated): once the pending images have been loaded, every image box
\* whose image was decoded and whose element has no width or height attribute
\* and no CSS size is laid out at the decoded width and height.
C5_IntrinsicSizeLaidOut ==
    (IsSome(layout_root) /\ image_cache.images # <<>> /\ pending_images = <<>>) =>
        \A i \in 1..Len(layout_root[1].children) :
            LET image_box == layout_root[1].children[i]
                size == get_size(image_cache, image_box.image_src[1])
            IN (/\ IsSome(size)
                /\ IsNone(tab_images[i].width) /\ IsNone(tab_images[i].height)
                /\ IsNone(image_box.style.width) /\ IsNone(image_box.style.height))
               => /\ image_box.dimensions.content.width = Px(size[1].width)
                  /\ image_box.dimensions.content.height = Px(size[1].height)

\* C24: after a layout rebuild and the image-loading step of the frame loop
\* that follows it (which runs only when images are pending), every image box
\* whose resolved url is Loaded in the cache has that url as its source and
\* the texture id of the cache entry
C24_LoadedImagesSurviveRebuild ==
    (IsSome(layout_root) /\ pending_images = <<>>) =>
        \A i \in 1..Len(layout_root[1].children) :
            LET image_box == layout_root[1].children[i]
                resolved == resolve_url(tab_images[i].src)
                cached == get_texture_id(image_cache, resolved[1])
            IN IsSome(cached) =>
                   /\ image_box.image_src = resolved
                   /\ image_box.texture_id = cached

---------------------------------------------------------------------------
\* layout/flex.rs: flex layout.  flex-grow and flex-shrink are whole numbers.

\* the flex container and flex item fields of ComputedStyle::default
FlexStyleDefaults ==
    [flex_direction |-> "Row", flex_wrap |-> "NoWrap", justify_content |-> "FlexStart",
     align_items |-> "Stretch", gap |-> 0, row_gap |-> 0, column_gap |-> 0,
     flex_grow |-> 0, flex_shrink |-> 1, flex_basis |-> NoneV, align_self |-> NoneV,
     order |-> 0]

\* a LayoutBox with the flex fields of its style and its text_content
FlexLayoutBox(box_type, style, flex_style, text_content, kids) ==
    [LayoutBox(box_type, style, kids, NoneV, NoneV) EXCEPT !.style = style @@ flex_style]
    @@ [text_content |-> text_content]

\* f32::MAX, the available main size of a column container: a value above
\* every size of the model
F32_MAX == Px(1000000)

RECURSIVE SumMarginBoxHeight(_)
SumMarginBoxHeight(boxes) ==
    IF boxes = <<>> THEN 0
    ELSE margin_box(Head(boxes).dimensions).height + SumMarginBoxHeight(Tail(boxes))

\* layout_child_intrinsic
RECURSIVE layout_child_intrinsic(_, _)
layout_child_intrinsic(child, containing_width) ==
    LET style == child.style
        dim == WithEdges(child.dimensions, style)
        available == containing_width - horizontal(dim.margin) - horizontal(dim.padding)
                     - horizontal(dim.border)
        measured == measure_text(child.text_content[1], style.font_size)
        width == IF IsSome(child.text_content) THEN measured[1]
                 ELSE IF IsSome(style.width) THEN style.width[1]
                 ELSE Max(available, 0)
        laid_out == IsNone(style.height) /\ IsNone(child.text_content)
        kids == IF laid_out
                THEN [i \in 1..Len(child.children) |->
                         layout_child_intrinsic(child.children[i], width)]
                ELSE child.children
        height == IF IsSome(style.height) THEN style.height[1]
                  ELSE IF IsSome(child.text_content) THEN measured[2]
                  ELSE SumMarginBoxHeight(kids)
    IN [child EXCEPT !.dimensions = [dim EXCEPT !.content.width = width,
                                                !.content.height = height],
                     !.children = kids]

\* FlexItem; child is the position of its layout_box among the container's
\* children
FlexItem(child, layout_box, outer_flex_basis, hypothetical_main_size) ==
    [child |-> child, layout_box |-> layout_box, outer_flex_basis |-> outer_flex_basis,
     flex_grow |-> layout_box.style.flex_grow, flex_shrink |-> layout_box.style.flex_shrink,
     hypothetical_main_size |-> hypothetical_main_size, main_offset |-> 0,
     cross_offset |-> 0, main_size |-> hypothetical_main_size, cross_size |-> 0]

\* the cross size of an item: its margin-box height in a row
ItemCross(layout_box, is_row) ==
    IF is_row THEN margin_box(layout_box.dimensions).height
    ELSE margin_box(layout_box.dimensions).width

\* the main size of an item's margin box
ItemMain(layout_box, is_row) ==
    IF is_row THEN margin_box(layout_box.dimensions).width
    ELSE margin_box(layout_box.dimensions).height

RECURSIVE MaxItemCross(_, _)
MaxItemCross(items, is_row) ==
    IF items = <<>> THEN 0
    ELSE Max(ItemCross(Head(items).layout_box, is_row), MaxItemCross(Tail(items), is_row))

\* FlexLine
FlexLine(items, main_size, cross_size) ==
    [items |-> items, main_size |-> main_size, cross_size |-> cross_size]

\* build_flex_line
build_flex_line(items, main_size, is_row) ==
    FlexLine(items, main_size, MaxItemCross(items, is_row))

\* items.sort_by_key(|item| item.style.order): a stable sort of the positions
RECURSIVE InsertByOrder(_, _, _)
InsertByOrder(boxes, sorted, i) ==
    IF sorted = <<>> THEN <<i>>
    ELSE IF boxes[Head(sorted)].style.order <= boxes[i].style.order
         THEN <<Head(sorted)>> \o InsertByOrder(boxes, Tail(sorted), i)
         ELSE <<i>> \o sorted

RECURSIVE SortByOrder(_, _)
SortByOrder(boxes, positions) ==
    IF positions = <<>> THEN <<>>
    ELSE InsertByOrder(boxes,
                       SortByOrder(boxes, SubSeq(positions, 1, Len(positions) - 1)),
                       positions[Len(positions)])

\* the items of layout_flex: the children kept by the filter, sorted by order
FlexItemPositions(boxes) ==
    SortByOrder(boxes,
                SelectSeq([i \in 1..Len(boxes) |-> i],
                          LAMBDA i : boxes[i].box_type # "Text"
                                     \/ IsSome(boxes[i].text_content)))

\* the wrap test with the gap before the item left out
WouldOverflowWithoutGap(ctx, current_line_items, current_line_main_size, gap_for_this_item, outer_main) ==
    /\ ctx.flex_wrap # "NoWrap"
    /\ current_line_items # <<>>
    /\ current_line_main_size + outer_main > ctx.available_main

\* would_overflow in layout_flex
WouldOverflow(ctx, current_line_items, current_line_main_size, gap_for_this_item, outer_main) ==
    /\ ctx.flex_wrap # "NoWrap"
    /\ current_line_items # <<>>
    /\ current_line_main_size + gap_for_this_item + outer_main > ctx.available_main

\* the line-building loop of layout_flex over the items at positions
RECURSIVE PackLines(_, _, _, _, _, _)
PackLines(boxes, positions, ctx, lines, current_line_items, current_line_main_size) ==
    IF positions = <<>>
    THEN IF current_line_items # <<>>
         THEN Append(lines, build_flex_line(current_line_items, current_line_main_size,
                                            ctx.is_row))
         ELSE lines
    ELSE LET item == boxes[Head(positions)]
             dim == item.dimensions
             flex_basis == IF IsSome(item.style.flex_basis) THEN item.style.flex_basis[1]
                           ELSE ItemMain(item, ctx.is_row)
             outer_main ==
                 IF ctx.is_row
                 THEN flex_basis + horizontal(dim.margin) + horizontal(dim.padding)
                      + horizontal(dim.border)
                 ELSE flex_basis + vertical(dim.margin) + vertical(dim.padding)
                      + vertical(dim.border)
             gap_for_this_item == IF current_line_items = <<>> THEN 0 ELSE ctx.main_gap
             would_overflow == WouldOverflow(ctx, current_line_items, current_line_main_size,
                                             gap_for_this_item, outer_main)
             lines1 == IF would_overflow
                       THEN Append(lines, build_flex_line(current_line_items,
                                                          current_line_main_size, ctx.is_row))
                       ELSE lines
             items1 == IF would_overflow THEN <<>> ELSE current_line_items
             main1 == IF would_overflow THEN 0 ELSE current_line_main_size
             main2 == IF items1 # <<>> THEN main1 + ctx.main_gap ELSE main1
         IN PackLines(boxes, Tail(positions), ctx, lines1,
                      Append(items1, FlexItem(Head(positions), item, outer_main, flex_basis)),
                      main2 + outer_main)

RECURSIVE SumGrow(_)
SumGrow(items) ==
    IF items = <<>> THEN 0 ELSE Head(items).flex_grow + SumGrow(Tail(items))

RECURSIVE SumShrink(_)
SumShrink(items) ==
    IF items = <<>> THEN 0
    ELSE Head(items).flex_shrink * Head(items).hypothetical_main_size
         + SumShrink(Tail(items))

RECURSIVE SumItemMain(_, _)
SumItemMain(items, is_row) ==
    IF items = <<>> THEN 0
    ELSE ItemMain(Head(items).layout_box, is_row) + SumItemMain(Tail(items), is_row)

\* an item with its resolved main size, written to its layout box
WithMainSize(item, main_size, is_row) ==
    [item EXCEPT !.main_size = main_size,
                 !.layout_box.dimensions.content =
                     IF is_row THEN [@ EXCEPT !.width = main_size]
                     ELSE [@ EXCEPT !.height = main_size]]

\* the grow branch with every item given an equal share of the free space,
\* whatever its flex-grow
GrownMainSizeEqualShare(item, free_space, total_grow, n) ==
    item.hypothetical_main_size + free_space \div n

\* the grow branch of resolve_flexible_lengths for one item
GrownMainSize(item, free_space, total_grow, n) ==
    item.hypothetical_main_size + item.flex_grow * (free_space \div total_grow)

\* the shrink branch of resolve_flexible_lengths for one item
ShrunkMainSize(item, free_space, total_shrink) ==
    Max(item.hypothetical_main_size
        - MulDiv(-free_space, item.flex_shrink * item.hypothetical_main_size, total_shrink),
        0)

\* resolve_flexible_lengths
resolve_flexible_lengths(line, available_main, main_gap, is_row) ==
    IF line.items = <<>> THEN line
    ELSE LET n == Len(line.items)
             total_gaps == main_gap * (n - 1)
             free_space == available_main - line.main_size
             total_grow == SumGrow(line.items)
             total_shrink == SumShrink(line.items)
             main_size(item) ==
                 IF free_space > 0
                 THEN IF total_grow > 0
                      THEN GrownMainSize(item, free_space, total_grow, n)
                      ELSE item.main_size
                 ELSE IF free_space < 0 /\ total_shrink > 0
                      THEN ShrunkMainSize(item, free_space, total_shrink)
                      ELSE item.main_size
             items == [i \in 1..n |-> WithMainSize(line.items[i], main_size(line.items[i]),
                                                   is_row)]
         IN [line EXCEPT !.items = items, !.main_size = SumItemMain(items, is_row) + total_gaps]

\* the offsets the loop of position_main_axis gives the items it visits in
\* order
RECURSIVE MainOffsets(_, _, _)
MainOffsets(visited, offset, between_space) ==
    IF visited = <<>> THEN <<>>
    ELSE LET item_main == Max(margin_box(Head(visited).layout_box.dimensions).width,
                              margin_box(Head(visited).layout_box.dimensions).height)
         IN <<offset>> \o MainOffsets(Tail(visited),
                                      offset + item_main
                                      + (IF Len(visited) > 1 THEN between_space ELSE 0),
                                      between_space)

\* position_main_axis
position_main_axis(line, available_main, justify_content, main_gap, is_reversed) ==
    IF line.items = <<>> THEN line
    ELSE LET free_space == Max(available_main - line.main_size, 0)
             item_count == Len(line.items)
             initial_offset ==
                 CASE justify_content = "FlexEnd" -> free_space
                   [] justify_content = "Center" -> free_space \div 2
                   [] justify_content = "SpaceAround" -> (free_space \div item_count) \div 2
                   [] justify_content = "SpaceEvenly" -> free_space \div (item_count + 1)
                   [] OTHER -> 0
             between_space ==
                 CASE justify_content = "SpaceBetween" /\ item_count > 1 ->
                          free_space \div (item_count - 1) + main_gap
                   [] justify_content = "SpaceAround" ->
                          free_space \div item_count + main_gap
                   [] justify_content = "SpaceEvenly" ->
                          free_space \div (item_count + 1) + main_gap
                   [] OTHER -> main_gap
             visit(i) == IF is_reversed THEN item_count + 1 - i ELSE i
             offsets == MainOffsets([i \in 1..item_count |-> line.items[visit(i)]],
                                    initial_offset, between_space)
         IN [line EXCEPT
                !.items = [i \in 1..item_count |->
                              [line.items[i] EXCEPT !.main_offset = offsets[visit(i)]]]]

\* calculate_line_cross_size
calculate_line_cross_size(line, is_row) ==
    [line EXCEPT !.cross_size = MaxItemCross(line.items, is_row)]

\* position_cross_axis_in_line for one item
PositionCross(item, line_cross_size, align_items, is_row) ==
    LET item_cross == ItemCross(item.layout_box, is_row)
        dim == item.layout_box.dimensions
        align == IF IsSome(item.layout_box.style.align_self)
                 THEN item.layout_box.style.align_self[1] ELSE align_items
        cross_offset ==
            CASE align = "FlexEnd" -> line_cross_size - item_cross
              [] align = "Center" -> (line_cross_size - item_cross) \div 2
              [] OTHER -> 0
        content ==
            IF align # "Stretch" THEN dim.content
            ELSE IF is_row
            THEN [dim.content EXCEPT
                     !.height = line_cross_size - vertical(dim.margin) - vertical(dim.padding)
                                - vertical(dim.border)]
            ELSE [dim.content EXCEPT
                     !.width = line_cross_size - horizontal(dim.margin)
                               - horizontal(dim.padding) - horizontal(dim.border)]
    IN [item EXCEPT !.cross_offset = cross_offset, !.cross_size = line_cross_size,
                    !.layout_box.dimensions.content = content]

\* position_cross_axis_in_line
position_cross_axis_in_line(line, align_items, is_row) ==
    [line EXCEPT !.items = [i \in 1..Len(line.items) |->
                               PositionCross(line.items[i], line.cross_size, align_items,
                                             is_row)]]

\* the cross offset position_lines has reached before the k-th line it visits
RECURSIVE CrossOffsetBefore(_, _, _, _)
CrossOffsetBefore(lines, visit, k, cross_gap) ==
    IF k = 1 THEN 0
    ELSE CrossOffsetBefore(lines, visit, k - 1, cross_gap)
         + lines[visit[k - 1]].cross_size + cross_gap

\* the order in which position_lines visits the lines
LineVisits(n, wrap_reverse) == [k \in 1..n |-> IF wrap_reverse THEN n + 1 - k ELSE k]

\* position_lines: the lines it leaves
position_lines(lines, cross_gap, wrap_reverse) ==
    LET visit == LineVisits(Len(lines), wrap_reverse)
        before(l) == CrossOffsetBefore(lines, visit,
                                       CHOOSE k \in 1..Len(lines) : visit[k] = l, cross_gap)
    IN [l \in 1..Len(lines) |->
           [lines[l] EXCEPT
               !.items = [i \in 1..Len(lines[l].items) |->
                             [lines[l].items[i] EXCEPT !.cross_offset = @ + before(l)]]]]

\* position_lines: the total cross size it returns
total_cross_size(lines, cross_gap) ==
    IF lines = <<>> THEN 0
    ELSE CrossOffsetBefore(lines, LineVisits(Len(lines), FALSE), Len(lines), cross_gap)
         + lines[Len(lines)].cross_size

\* apply_positions for one item
ApplyPosition(item, is_row, padding, border) ==
    LET margin == item.layout_box.dimensions.margin
        main == IF is_row THEN item.main_offset ELSE item.cross_offset
        cross == IF is_row THEN item.cross_offset ELSE item.main_offset
    IN [item EXCEPT
           !.layout_box.dimensions.content =
               [@ EXCEPT !.x = main + margin.left + padding.left + border.left,
                         !.y = cross + margin.top + padding.top + border.top]]

\* apply_positions
apply_positions(lines, is_row, padding, border) ==
    [l \in 1..Len(lines) |->
        [lines[l] EXCEPT !.items = [i \in 1..Len(lines[l].items) |->
                                       ApplyPosition(lines[l].items[i], is_row, padding,
                                                     border)]]]

\* the (line, item) places of the lines
ItemPlaces(lines) ==
    UNION {{<<l, i>> : i \in 1..Len(lines[l].items)} : l \in 1..Len(lines)}

\* the children of the container after layout_flex: the items' boxes as the
\* lines left them, the children that are no items as the first pass left them
ChildrenAfter(lines, boxes) ==
    [c \in 1..Len(boxes) |->
        IF \E pl \in ItemPlaces(lines) : lines[pl[1]].items[pl[2]].child = c
        THEN LET pl == CHOOSE q \in ItemPlaces(lines) : lines[q[1]].items[q[2]].child = c
             IN lines[pl[1]].items[pl[2]].layout_box
        ELSE boxes[c]]

\* the steps of layout_flex on one line between the packing of the lines and
\* position_lines
LayOutLine(line, ctx, style, is_reversed) ==
    position_cross_axis_in_line(
        calculate_line_cross_size(
            position_main_axis(
                resolve_flexible_lengths(line, ctx.available_main, ctx.main_gap, ctx.is_row),
                ctx.available_main, style.justify_content, ctx.main_gap, is_reversed),
            ctx.is_row),
        style.align_items, ctx.is_row)

\* the end of layout_flex, from position_lines on: the container and the lines
\* it leaves
PositionedFlex(layout_box, dim, content_width, boxes, aligned, ctx, cross_gap) ==
    LET style == layout_box.style
        total == total_cross_size(aligned, cross_gap)
        lines == apply_positions(position_lines(aligned, cross_gap,
                                                style.flex_wrap = "WrapReverse"),
                                 ctx.is_row, dim.padding, dim.border)
        container_height == IF IsSome(style.height) THEN style.height[1] ELSE total
    IN [lines |-> lines,
        layout_box |->
            [layout_box EXCEPT
                !.dimensions = [dim EXCEPT !.content.width = content_width,
                                           !.content.height = container_height],
                !.children = ChildrenAfter(lines, boxes)]]

\* the middle of layout_flex, from the packed lines on
PackedFlex(layout_box, dim, content_width, boxes, packed, ctx, cross_gap) ==
    PositionedFlex(layout_box, dim, content_width, boxes,
                   [l \in 1..Len(packed) |->
                       LayOutLine(packed[l], ctx, layout_box.style,
                                  layout_box.style.flex_direction
                                      \in {"RowReverse", "ColumnReverse"})],
                   ctx, cross_gap)

\* layout_flex: the container and the lines it leaves
layout_flex(layout_box, containing_width) ==
    LET style == layout_box.style
        dim == WithEdges(layout_box.dimensions, style)
        content_width ==
            IF IsSome(style.width) THEN style.width[1]
            ELSE containing_width - horizontal(dim.margin) - horizontal(dim.padding)
                 - horizontal(dim.border)
        row_gap == IF style.row_gap > 0 THEN style.row_gap ELSE style.gap
        column_gap == IF style.column_gap > 0 THEN style.column_gap ELSE style.gap
        is_row == style.flex_direction \in {"Row", "RowReverse"}
        main_gap == IF is_row THEN column_gap ELSE row_gap
        cross_gap == IF is_row THEN row_gap ELSE column_gap
        available_main == IF is_row THEN content_width ELSE F32_MAX
        boxes == [i \in 1..Len(layout_box.children) |->
                     layout_child_intrinsic(layout_box.children[i], content_width)]
        ctx == [is_row |-> is_row, flex_wrap |-> style.flex_wrap, main_gap |-> main_gap,
                available_main |-> available_main]
    IN PackedFlex(layout_box, dim, content_width, boxes,
                  PackLines(boxes, FlexItemPositions(boxes), ctx, <<>>, <<>>, 0),
                  ctx, cross_gap)

\* items: 50px wide and growing; the same with margins; 150px wide; wider than
\* every container; one with a flex-basis, twice the growth and an earlier
\* order; a text; a text box without text
ItemStyle(width, height, edges) ==
    [StyleWithEdges(edges, NoEdges, NoEdges) EXCEPT !.width = Some(width),
                                                    !.height = Some(height)]
FlexItemPool ==
    {FlexLayoutBox("Block", ItemStyle(Px(50), Px(20), NoEdges),
                   [FlexStyleDefaults EXCEPT !.flex_grow = 1], NoneV, <<>>),
     FlexLayoutBox("Block", ItemStyle(Px(50), Px(20), EvenEdges),
                   [FlexStyleDefaults EXCEPT !.flex_grow = 1], NoneV, <<>>),
     FlexLayoutBox("Block", ItemStyle(Px(150), Px(30), NoEdges),
                   FlexStyleDefaults, NoneV, <<>>),
     FlexLayoutBox("Block", ItemStyle(Px(400), Px(20), NoEdges),
                   FlexStyleDefaults, NoneV, <<>>),
     FlexLayoutBox("Block", ItemStyle(Px(50), Px(20), NoEdges),
                   [FlexStyleDefaults EXCEPT !.flex_grow = 2, !.flex_basis = Some(Px(80)),
                                             !.order = -1], NoneV, <<>>),
     FlexLayoutBox("Text", DefaultStyle, FlexStyleDefaults, Some("hi"), <<>>),
     FlexLayoutBox("Text", DefaultStyle, FlexStyleDefaults, NoneV, <<>>)}

MaxFlexItems == 3

FlexItemLists == UNION {[1..n -> FlexItemPool] : n \in 0..MaxFlexItems}

FlexDirections == {"Row", "Column"}
FlexWraps == {"NoWrap", "Wrap", "WrapReverse"}
FlexGaps == {0, Px(10)}
FlexJustifications == {"FlexStart", "SpaceBetween"}

\* a flex container of automatic width and height in a containing block of
\* 300px
FlexInit ==
    /\ \E kids \in FlexItemLists, direction \in FlexDirections, wrap \in FlexWraps,
          gap \in FlexGaps, justify \in FlexJustifications :
          flex_box = FlexLayoutBox("Flex", DefaultStyle,
                                   [FlexStyleDefaults EXCEPT !.flex_direction = direction,
                                                             !.flex_wrap = wrap,
                                                             !.gap = gap,
                                                             !.justify_content = justify],
                                   NoneV, kids)
    /\ flex_containing_width = Px(300)
    /\ flex_lines = <<>>
    /\ flex_done = FALSE
    /\ StyleIdle /\ ApplyIdle /\ BlockIdle /\ ScrollIdle /\ ImageIdle
    /\ GridIdle /\ RenderIdle /\ MatchIdle /\ HistoryIdle /\ LoadIdle

\* LayoutTree::layout on a Flex box: layout_flex
LayoutFlex ==
    /\ ~flex_done
    /\ LET result == layout_flex(flex_box, flex_containing_width)
       IN /\ flex_box' = result.layout_box
          /\ flex_lines' = result.lines
    /\ flex_done' = TRUE
    /\ UNCHANGED flex_containing_width
    /\ UNCHANGED <<styleVars, applyVars, blockVars, scrollVars, imageVars, gridVars,
                   renderVars, matchVars, historyVars, loadVars>>

FlexNext == LayoutFlex

FlexSpec == FlexInit /\ [][FlexNext]_vars

\* the main gap and the available main size of the container laid out
FlexIsRow == flex_box.style.flex_direction \in {"Row", "RowReverse"}
FlexMainGap ==
    IF FlexIsRow
    THEN IF flex_box.style.column_gap > 0 THEN flex_box.style.column_gap
         ELSE flex_box.style.gap
    ELSE IF flex_box.style.row_gap > 0 THEN flex_box.style.row_gap ELSE flex_box.style.gap
FlexAvailableMain == IF FlexIsRow THEN flex_box.dimensions.content.width ELSE F32_MAX

\* the main size of a line before grow and shrink: the outer hypothetical main
\* sizes of its items and the gaps between them
RECURSIVE SumOuter(_)
SumOuter(items) ==
    IF items = <<>> THEN 0 ELSE Head(items).outer_flex_basis + SumOuter(Tail(items))
PackedMainSize(line) == SumOuter(line.items) + FlexMainGap * (Len(line.items) - 1)

\* C13: with flex-wrap other than nowrap, every item of the container is in
\* exactly one line, and no line of more than one item is longer, before grow
\* and shrink, than the available main size.
C13_LinesFit ==
    (flex_done /\ flex_box.style.flex_wrap # "NoWrap") =>
        /\ \A c \in 1..Len(flex_box.children) :
              LET places == {pl \in ItemPlaces(flex_lines) :
                                flex_lines[pl[1]].items[pl[2]].child = c}
                  is_item == flex_box.children[c].box_type # "Text"
                             \/ IsSome(flex_box.children[c].text_content)
              IN Cardinality(places) = (IF is_item THEN 1 ELSE 0)
        /\ \A l \in 1..Len(flex_lines) :
              /\ Len(flex_lines[l].items) >= 1
              /\ (Len(flex_lines[l].items) > 1 =>
                     PackedMainSize(flex_lines[l]) <= FlexAvailableMain)

\* C13 witness: a wrapping row of three lines, one of two items that fit, one
\* of a single item that fits and one of a single item wider than the container
C13_Witness ==
    /\ flex_done
    /\ flex_box.style.flex_wrap = "Wrap"
    /\ FlexIsRow
    /\ \E l \in 1..Len(flex_lines) : Len(flex_lines[l].items) = 2
    /\ \E l \in 1..Len(flex_lines) :
          /\ Len(flex_lines[l].items) = 1
          /\ PackedMainSize(flex_lines[l]) > FlexAvailableMain

\* C14: in a line with positive free space and positive total flex-grow, every
\* item's main size, which is the main size of its box's content, is its
\* hypothetical main size plus free_space * flex_grow / (total flex-grow), to
\* the rounding of the division; three items of flex-grow 1 whose hypothetical
\* widths add up to 150px, in a container of 300px that leaves them 150px, grow
\* by 50px each.
C14_GrowShares ==
    flex_done =>
        \A l \in 1..Len(flex_lines) :
            LET items == flex_lines[l].items
                free_space == FlexAvailableMain - PackedMainSize(flex_lines[l])
                total_grow == SumGrow(items)
                grown(item) == item.main_size - item.hypothetical_main_size
                share(item) == (free_space * item.flex_grow) \div total_grow
                hypothetical == [i \in 1..Len(items) |-> items[i].hypothetical_main_size]
            IN (free_space > 0 /\ total_grow > 0) =>
                  /\ \A i \in 1..Len(items) :
                        /\ share(items[i]) - items[i].flex_grow <= grown(items[i])
                        /\ grown(items[i]) <= share(items[i])
                        /\ items[i].main_size =
                               IF FlexIsRow THEN items[i].layout_box.dimensions.content.width
                               ELSE items[i].layout_box.dimensions.content.height
                  /\ (/\ Len(items) = 3
                      /\ \A i \in 1..3 : items[i].flex_grow = 1
                      /\ FlexAvailableMain = Px(300)
                      /\ hypothetical[1] + hypothetical[2] + hypothetical[3] = Px(150)
                      /\ free_space = Px(150))
                     => \A i \in 1..3 : grown(items[i]) = Px(50)

\* C14 witness: a line of three items of 50px and flex-grow 1 in 300px, each
\* 100px wide after layout
C14_Witness ==
    /\ flex_done
    /\ Len(flex_lines) = 1
    /\ Len(flex_lines[1].items) = 3
    /\ FlexAvailableMain = Px(300)
    /\ \A i \in 1..3 :
          /\ flex_lines[1].items[i].flex_grow = 1
          /\ flex_lines[1].items[i].hypothetical_main_size = Px(50)
          /\ flex_lines[1].items[i].layout_box.dimensions.content.width = Px(100)

\* the outer main-axis size of an item: its margin box along the main axis
OuterMainSize(item) ==
    IF FlexIsRow THEN margin_box(item.layout_box.dimensions).width
    ELSE margin_box(item.layout_box.dimensions).height

\* the definite main size of the container, if it has one: the content width
\* of a row, the height of a column that has a height
FlexDefiniteMain ==
    IF FlexIsRow THEN Some(flex_box.dimensions.content.width) ELSE flex_box.style.height

RECURSIVE SumOuterMain(_)
SumOuterMain(items) ==
    IF items = <<>> THEN 0 ELSE OuterMainSize(Head(items)) + SumOuterMain(Tail(items))

\* the free space a line leaves of the definite main size
LeftoverSpace(line) ==
    FlexDefiniteMain[1] - SumOuterMain(line.items) - FlexMainGap * (Len(line.items) - 1)

\* C28: with justify-content: space-between, in a line of n > 1 items of a row
\* or column container of definite main size that leaves free space, the
\* first item starts at main offset 0, each following item starts at the
\* previous item's start plus its outer main size plus the gap plus
\* free_space / (n - 1), and the last item ends at the available main size (to
\* the rounding of the division)
C28_SpaceBetween ==
    (flex_done /\ flex_box.style.justify_content = "SpaceBetween" /\ IsSome(FlexDefiniteMain)) =>
        \A l \in 1..Len(flex_lines) :
            LET items == flex_lines[l].items
                n == Len(items)
                free_space == LeftoverSpace(flex_lines[l])
                last_end == items[n].main_offset + OuterMainSize(items[n])
            IN (n > 1 /\ free_space >= 0) =>
                  /\ items[1].main_offset = 0
                  /\ \A i \in 2..n :
                        items[i].main_offset =
                            items[i - 1].main_offset + OuterMainSize(items[i - 1])
                            + FlexMainGap + free_space \div (n - 1)
                  /\ last_end <= FlexDefiniteMain[1]
                  /\ last_end >= FlexDefiniteMain[1] - (n - 1)

---------------------------------------------------------------------------
\* layout/grid.rs: grid layout.  Lengths are in px, fr values whole numbers;
\* on px lengths layout_child_intrinsic of grid.rs is that of flex.rs.

\* GridTrackSize
GridTrackSize(kind, size) == [kind |-> kind, size |-> size]
TrackPx(px) == GridTrackSize("Px", px)
TrackFr(fr) == GridTrackSize("Fr", fr)
TrackAuto == GridTrackSize("Auto", 0)

\* GridPlacement
GridPlacement(start, end) == [start |-> start, end |-> end]

\* the grid container and grid item fields of ComputedStyle::default
GridStyleDefaults ==
    [grid_template_columns |-> <<>>, grid_template_rows |-> <<>>,
     grid_auto_columns |-> TrackAuto, grid_auto_rows |-> TrackAuto,
     grid_gap |-> 0, grid_row_gap |-> 0, grid_column_gap |-> 0,
     grid_column |-> GridPlacement(NoneV, NoneV), grid_row |-> GridPlacement(NoneV, NoneV)]

\* a LayoutBox with the grid fields of its style and its text_content
GridLayoutBox(box_type, style, grid_style, text_content, kids) ==
    FlexLayoutBox(box_type, style, grid_style, text_content, kids)

\* the loop of determine_grid_size from the child at index i (0-based) on
RECURSIVE GridSizeLoop(_, _, _, _, _)
GridSizeLoop(boxes, i, template_columns, max_column, max_row) ==
    IF i >= Len(boxes) THEN <<max_column, max_row>>
    ELSE LET placement == boxes[i + 1].style.grid_column
             row_placement == boxes[i + 1].style.grid_row
             column1 == IF IsSome(placement.end) THEN Max(max_column, placement.end[1])
                        ELSE IF IsSome(placement.start)
                             THEN Max(max_column, placement.start[1])
                             ELSE max_column
             row1 == IF IsSome(row_placement.end) THEN Max(max_row, row_placement.end[1])
                     ELSE IF IsSome(row_placement.start)
                          THEN Max(max_row, row_placement.start[1])
                          ELSE max_row
             row2 == IF IsNone(placement.start) /\ template_columns > 0
                     THEN Max(row1, (i \div template_columns) + 1)
                     ELSE row1
         IN GridSizeLoop(boxes, i + 1, template_columns, column1, row2)

\* determine_grid_size: (num_columns, num_rows)
determine_grid_size(boxes, template_columns, template_rows) ==
    LET size == GridSizeLoop(boxes, 0, template_columns, Max(template_columns, 1),
                             Max(template_rows, 1))
    IN IF template_columns > 0
       THEN <<size[1],
              Max(size[2], (Len(boxes) + template_columns - 1) \div template_columns)>>
       ELSE size

\* get_item_placement: (column_start, column_end, row_start, row_end)
get_item_placement(child, index, num_columns) ==
    LET col_placement == child.style.grid_column
        row_placement == child.style.grid_row
        col == (index % Max(num_columns, 1)) + 1
        row == (index \div Max(num_columns, 1)) + 1
        cols == IF IsSome(col_placement.start)
                THEN <<col_placement.start[1],
                       IF IsSome(col_placement.end) THEN col_placement.end[1]
                       ELSE col_placement.start[1] + 1>>
                ELSE <<col, col + 1>>
        rows == IF IsSome(row_placement.start)
                THEN <<row_placement.start[1],
                       IF IsSome(row_placement.end) THEN row_placement.end[1]
                       ELSE row_placement.start[1] + 1>>
                ELSE <<row, row + 1>>
    IN cols \o rows

\* ResolvedTracks
ResolvedTracks(sizes, positions) == [sizes |-> sizes, positions |-> positions]

RECURSIVE SumSeq(_)
SumSeq(seq) == IF seq = <<>> THEN 0 ELSE Head(seq) + SumSeq(Tail(seq))

\* the positions of tracks of the given sizes: cumulative, with the gap
TrackPositions(sizes, gap) ==
    [i \in 1..Len(sizes) |-> SumSeq(SubSeq(sizes, 1, i - 1)) + gap * (i - 1)]

\* resolve_tracks
resolve_tracks(templates, num_tracks, available_space, gap, auto_size) ==
    LET actual_num_tracks == Max(Max(num_tracks, Len(templates)), 1)
        total_gaps == gap * (actual_num_tracks - 1)
        space_for_tracks == Max(available_space - total_gaps, 0)
        template(i) == IF i <= Len(templates) THEN templates[i] ELSE auto_size
        fixed_size == SumSeq([i \in 1..actual_num_tracks |->
                                 IF template(i).kind = "Px" THEN template(i).size ELSE 0])
        total_fr == SumSeq([i \in 1..actual_num_tracks |->
                               CASE template(i).kind = "Px" -> 0
                                 [] template(i).kind = "Fr" -> template(i).size
                                 [] OTHER -> 1])
        space_for_fr == Max(space_for_tracks - fixed_size, 0)
        fr_unit_size == IF total_fr > 0 THEN space_for_fr \div total_fr ELSE 0
        sizes == [i \in 1..actual_num_tracks |->
                     CASE template(i).kind = "Px" -> template(i).size
                       [] template(i).kind = "Fr" -> template(i).size * fr_unit_size
                       [] OTHER -> fr_unit_size]
    IN ResolvedTracks(sizes, TrackPositions(sizes, gap))

\* GridItem; child is the position of its layout_box among the container's
\* children
GridItem(child, layout_box, placement) ==
    [child |-> child, layout_box |-> layout_box, column_start |-> placement[1],
     column_end |-> placement[2], row_start |-> placement[3], row_end |-> placement[4]]

\* the items of layout_grid: the children kept by the filter, enumerated
GridItems(boxes, num_columns) ==
    LET kept == SelectSeq([c \in 1..Len(boxes) |-> c],
                          LAMBDA c : boxes[c].box_type # "Text"
                                     \/ IsSome(boxes[c].text_content))
    IN [i \in 1..Len(kept) |->
           GridItem(kept[i], boxes[kept[i]],
                    get_item_placement(boxes[kept[i]], i - 1, num_columns))]

\* the row height after an item of the row, in the loop of
\* calculate_row_heights
RowHeightAfterItem(height, item_height, row_index, row_templates) ==
    IF row_index < Len(row_templates) /\ row_templates[row_index + 1].kind = "Px"
    THEN Max(height, row_templates[row_index + 1].size)
    ELSE Max(height, item_height)

\* the width calculate_row_heights gives an item: the tracks it spans
ItemTrackWidth(item, column_tracks) ==
    LET col_start == item.column_start - 1
        col_end == Min(item.column_end - 1, Len(column_tracks.sizes))
    IN SumSeq([k \in 1..Max(col_end - col_start, 0) |-> column_tracks.sizes[col_start + k]])

\* the first loop of calculate_row_heights: the heights and the items it leaves
RECURSIVE RowHeightsLoop(_, _, _, _, _, _)
RowHeightsLoop(items, i, heights, column_tracks, num_rows, row_templates) ==
    IF i > Len(items) THEN [heights |-> heights, items |-> items]
    ELSE LET item == items[i]
             row_index == item.row_start - 1
             dim == item.layout_box.dimensions
             item_width == ItemTrackWidth(item, column_tracks)
             sized == IF item_width > 0
                      THEN [item EXCEPT !.layout_box.dimensions.content.width =
                                item_width - horizontal(dim.margin) - horizontal(dim.padding)
                                - horizontal(dim.border)]
                      ELSE item
             item_height == margin_box(sized.layout_box.dimensions).height
         IN IF row_index < 0 \/ row_index >= num_rows
            THEN RowHeightsLoop(items, i + 1, heights, column_tracks, num_rows, row_templates)
            ELSE RowHeightsLoop([items EXCEPT ![i] = sized], i + 1,
                                [heights EXCEPT ![row_index + 1] =
                                    RowHeightAfterItem(@, item_height, row_index,
                                                       row_templates)],
                                column_tracks, num_rows, row_templates)

\* calculate_row_heights: the heights it returns and the items it leaves
calculate_row_heights(items, column_tracks, num_rows, row_templates) ==
    LET looped == RowHeightsLoop(items, 1, [r \in 1..num_rows |-> 0], column_tracks,
                                 num_rows, row_templates)
    IN [heights |-> [r \in 1..num_rows |->
                        IF looped.heights[r] = 0 THEN Px(20) ELSE looped.heights[r]],
        items |-> looped.items]

\* resolve_row_tracks
resolve_row_tracks(heights, gap) == ResolvedTracks(heights, TrackPositions(heights, gap))

\* position_grid_item
position_grid_item(item, column_tracks, row_tracks, padding, border) ==
    LET col_start == item.column_start - 1
        row_start == item.row_start - 1
        x == IF col_start >= 0 /\ col_start < Len(column_tracks.positions)
             THEN column_tracks.positions[col_start + 1] ELSE 0
        y == IF row_start >= 0 /\ row_start < Len(row_tracks.positions)
             THEN row_tracks.positions[row_start + 1] ELSE 0
        margin == item.layout_box.dimensions.margin
    IN [item EXCEPT
           !.layout_box.dimensions.content =
               [@ EXCEPT !.x = x + margin.left + padding.left + border.left,
                         !.y = y + margin.top + padding.top + border.top]]

\* the end of layout_grid, from the positioning of the items on: the
\* container, the items and the row heights it leaves
PositionedGrid(layout_box, dim, content_width, boxes, rows, column_tracks, row_tracks) ==
    LET style == layout_box.style
        items == [i \in 1..Len(rows.items) |->
                     position_grid_item(rows.items[i], column_tracks, row_tracks, dim.padding,
                                        dim.border)]
        total_height == IF rows.heights = <<>> THEN 0
                        ELSE row_tracks.positions[Len(rows.heights)]
                             + row_tracks.sizes[Len(rows.heights)]
        container_height == IF IsSome(style.height) THEN style.height[1] ELSE total_height
    IN [row_heights |-> rows.heights,
        items |-> items,
        layout_box |->
            [layout_box EXCEPT
                !.dimensions = [dim EXCEPT !.content.width = content_width,
                                           !.content.height = container_height],
                !.children = [c \in 1..Len(boxes) |->
                                 IF \E i \in 1..Len(items) : items[i].child = c
                                 THEN items[CHOOSE i \in 1..Len(items) : items[i].child = c]
                                          .layout_box
                                 ELSE boxes[c]]]]

\* the middle of layout_grid, from calculate_row_heights on
SizedGrid(layout_box, dim, content_width, boxes, size, column_tracks, row_gap) ==
    LET rows == calculate_row_heights(GridItems(boxes, size[1]), column_tracks, size[2],
                                      layout_box.style.grid_template_rows)
    IN PositionedGrid(layout_box, dim, content_width, boxes, rows, column_tracks,
                      resolve_row_tracks(rows.heights, row_gap))

\* layout_grid: the container, the items and the row heights it leaves
layout_grid(layout_box, containing_width) ==
    LET style == layout_box.style
        dim == WithEdges(layout_box.dimensions, style)
        content_width ==
            IF IsSome(style.width) THEN style.width[1]
            ELSE containing_width - horizontal(dim.margin) - horizontal(dim.padding)
                 - horizontal(dim.border)
        column_gap == IF style.grid_column_gap > 0 THEN style.grid_column_gap
                      ELSE style.grid_gap
        row_gap == IF style.grid_row_gap > 0 THEN style.grid_row_gap ELSE style.grid_gap
        boxes == [c \in 1..Len(layout_box.children) |->
                     layout_child_intrinsic(layout_box.children[c], content_width)]
        size == determine_grid_size(boxes, Len(style.grid_template_columns),
                                    Len(style.grid_template_rows))
    IN SizedGrid(layout_box, dim, content_width, boxes, size,
                 resolve_tracks(style.grid_template_columns, size[1], content_width,
                                column_gap, style.grid_auto_columns),
                 row_gap)

\* items: 20px high; 50px high with margins; 50px high in the second row; a
\* text box without text
GridItemStyle(height, edges) ==
    [StyleWithEdges(edges, NoEdges, NoEdges) EXCEPT !.height = Some(height)]
GridItemPool ==
    {GridLayoutBox("Block", GridItemStyle(Px(20), NoEdges), GridStyleDefaults, NoneV, <<>>),
     GridLayoutBox("Block", GridItemStyle(Px(50), EvenEdges), GridStyleDefaults, NoneV, <<>>),
     GridLayoutBox("Block", GridItemStyle(Px(50), NoEdges),
                   [GridStyleDefaults EXCEPT !.grid_row = GridPlacement(Some(2), NoneV)],
                   NoneV, <<>>),
     GridLayoutBox("Text", DefaultStyle, GridStyleDefaults, NoneV, <<>>)}

MaxGridItems == 3

GridItemLists == UNION {[1..n -> GridItemPool] : n \in 0..MaxGridItems}

ColumnTemplates == {<<>>, <<TrackFr(1), TrackFr(1)>>, <<TrackPx(Px(100)), TrackAuto>>}
RowTemplates == {<<>>, <<TrackPx(Px(30))>>, <<TrackPx(Px(80)), TrackAuto>>}
GridGaps == {0, Px(10)}

\* a grid container of automatic width and height in a containing block of
\* 300px
GridInit ==
    /\ \E kids \in GridItemLists, columns \in ColumnTemplates, rows \in RowTemplates,
          gap \in GridGaps :
          grid_box = GridLayoutBox("Grid", DefaultStyle,
                                   [GridStyleDefaults EXCEPT !.grid_template_columns = columns,
                                                             !.grid_template_rows = rows,
                                                             !.grid_gap = gap],
                                   NoneV, kids)
    /\ grid_containing_width = Px(300)
    /\ row_heights = <<>>
    /\ grid_done = FALSE
    /\ StyleIdle /\ ApplyIdle /\ BlockIdle /\ ScrollIdle /\ ImageIdle
    /\ FlexIdle /\ RenderIdle /\ MatchIdle /\ HistoryIdle /\ LoadIdle

\* LayoutTree::layout on a Grid box: layout_grid
LayoutGrid ==
    /\ ~grid_done
    /\ LET result == layout_grid(grid_box, grid_containing_width)
       IN /\ grid_box' = result.layout_box
          /\ row_heights' = result.row_heights
    /\ grid_done' = TRUE
    /\ UNCHANGED grid_containing_width
    /\ UNCHANGED <<styleVars, applyVars, blockVars, scrollVars, imageVars, flexVars,
                   renderVars, matchVars, historyVars, loadVars>>

GridNext == LayoutGrid

GridSpec == GridInit /\ [][GridNext]_vars

\* the items of the grid laid out, with their placements
GridItemsPlaced ==
    LET boxes == grid_box.children
        size == determine_grid_size(boxes, Len(grid_box.style.grid_template_columns),
                                    Len(grid_box.style.grid_template_rows))
    IN GridItems(boxes, size[1])

\* the margin-box heights of the items placed in row r (1-based)
ItemHeightsInRow(r) ==
    {margin_box(GridItemsPlaced[i].layout_box.dimensions).height :
        i \in {j \in 1..Len(GridItemsPlaced) : GridItemsPlaced[j].row_start = r}}

\* C18 (as stated): a row that holds items is as high as the tallest of their
\* margin boxes, or as its px template size when that is larger; a row that
\* holds no item is 20px high.
C18_RowHeights ==
    grid_done =>
        \A r \in 1..Len(row_heights) :
            LET heights == ItemHeightsInRow(r)
                templates == grid_box.style.grid_template_rows
                template_px == IF r <= Len(templates) /\ templates[r].kind = "Px"
                               THEN templates[r].size ELSE 0
            IN IF heights = {} THEN row_heights[r] = Px(20)
               ELSE /\ \A h \in heights : row_heights[r] >= h
                    /\ row_heights[r] \in heights \cup {template_px}

\* the size determine_grid_size finds for the grid
GridSizeFound ==
    determine_grid_size(grid_box.children, Len(grid_box.style.grid_template_columns),
                        Len(grid_box.style.grid_template_rows))

\* the item has no explicit column and no explicit row
AutoPlaced(item) ==
    /\ IsNone(item.layout_box.style.grid_column.start)
    /\ IsNone(item.layout_box.style.grid_row.start)

\* C25: with or without grid-template-columns, every item's placement lies in
\* the grid size found (column_start - 1 < num_columns, row_start - 1 <
\* num_rows); auto-placed items are placed row-major, each in a cell of its
\* own; every item's row is one of the rows that make up the container height
C25_GridSizeCoversItems ==
    grid_done =>
        LET items == GridItemsPlaced
            num_columns == GridSizeFound[1]
            num_rows == GridSizeFound[2]
        IN /\ \A i \in 1..Len(items) :
                  /\ items[i].column_start - 1 < num_columns
                  /\ items[i].row_start - 1 < num_rows
                  /\ items[i].row_start \in 1..Len(row_heights)
                  /\ AutoPlaced(items[i]) =>
                         /\ items[i].column_start - 1 = (i - 1) % num_columns
                         /\ items[i].row_start - 1 = (i - 1) \div num_columns
           /\ \A i, j \in 1..Len(items) :
                  (i # j /\ AutoPlaced(items[i]) /\ AutoPlaced(items[j])) =>
                      <<items[i].column_start, items[i].row_start>>
                          # <<items[j].column_start, items[j].row_start>>

---------------------------------------------------------------------------
\* app/history.rs: the navigation history.  current_index is 0-based as in
\* the code; entries[i] of the code is entries[i + 1] here.

\* History
History(urls, index) == [entries |-> urls, current_index |-> index]

\* History::new
history_new == History(<<>>, NoneV)

\* push without the truncate
push_without_truncate(h, url) ==
    History(Append(h.entries, url), Some(Len(h.entries)))

\* History::push
push(h, url) ==
    LET truncated == IF IsSome(h.current_index)
                     THEN SubSeq(h.entries, 1, Min(h.current_index[1] + 1, Len(h.entries)))
                     ELSE h.entries
    IN History(Append(truncated, url), Some(Len(truncated)))

\* History::current
current(h) ==
    IF IsSome(h.current_index) THEN Some(h.entries[h.current_index[1] + 1]) ELSE NoneV

\* History::can_go_back
can_go_back(h) == IsSome(h.current_index) /\ h.current_index[1] > 0

\* History::can_go_forward
can_go_forward(h) == IsSome(h.current_index) /\ h.current_index[1] < Len(h.entries) - 1

\* History::go_back: the history it leaves and the value it returns
go_back(h) ==
    IF can_go_back(h)
    THEN LET moved == [h EXCEPT !.current_index = Some(@[1] - 1)]
         IN [history |-> moved, result |-> current(moved)]
    ELSE [history |-> h, result |-> NoneV]

\* History::go_forward: the history it leaves and the value it returns
go_forward(h) ==
    IF can_go_forward(h)
    THEN LET moved == [h EXCEPT !.current_index = Some(@[1] + 1)]
         IN [history |-> moved, result |-> current(moved)]
    ELSE [history |-> h, result |-> NoneV]

Urls == {"https://example.com", "https://example.com/page1"}

\* the longest entry list explored
MaxEntries == 4

\* the history of the program
TheHistory == History(entries, current_index)

HistoryInit ==
    /\ entries = history_new.entries
    /\ current_index = history_new.current_index
    /\ history_result = <<>>
    /\ StyleIdle /\ ApplyIdle /\ BlockIdle /\ ScrollIdle /\ ImageIdle
    /\ FlexIdle /\ GridIdle /\ RenderIdle /\ MatchIdle /\ LoadIdle

HistoryUnchanged ==
    UNCHANGED <<styleVars, applyVars, blockVars, scrollVars, imageVars, flexVars,
                gridVars, renderVars, matchVars, loadVars>>

\* a call of push(url)
Push(url) ==
    /\ Len(push(TheHistory, url).entries) <= MaxEntries
    /\ entries' = push(TheHistory, url).entries
    /\ current_index' = push(TheHistory, url).current_index
    /\ history_result' = [op |-> "push", url |-> url]
    /\ HistoryUnchanged

\* a call of go_back()
GoBack ==
    /\ entries' = go_back(TheHistory).history.entries
    /\ current_index' = go_back(TheHistory).history.current_index
    /\ history_result' = [op |-> "go_back", result |-> go_back(TheHistory).result]
    /\ HistoryUnchanged

\* a call of go_forward()
GoForward ==
    /\ entries' = go_forward(TheHistory).history.entries
    /\ current_index' = go_forward(TheHistory).history.current_index
    /\ history_result' = [op |-> "go_forward", result |-> go_forward(TheHistory).result]
    /\ HistoryUnchanged

HistoryNext ==
    \/ \E url \in Urls : Push(url)
    \/ GoBack
    \/ GoForward

HistorySpec == HistoryInit /\ [][HistoryNext]_vars

\* the cursor is None exactly when there is no entry, and else is on an entry
CursorOnEntry ==
    /\ IsNone(current_index) <=> entries = <<>>
    /\ IsSome(current_index) => current_index[1] \in 0..(Len(entries) - 1)

\* what the claim says of push(url)
PushAsStated(url) ==
    LET kept == IF IsSome(current_index) THEN current_index[1] + 1 ELSE 0
    IN /\ entries' = Append(SubSeq(entries, 1, kept), url)
       /\ current_index' = Some(Len(entries') - 1)

\* what the claim says of go_back (by = -1, at the first entry) and of
\* go_forward (by = 1, at the last entry)
MoveAsStated(by, at_end) ==
    /\ entries' = entries
    /\ IF IsSome(current_index) /\ current_index[1] # at_end
       THEN /\ current_index' = Some(current_index[1] + by)
            /\ history_result'.result = Some(entries[current_index[1] + by + 1])
       ELSE /\ current_index' = current_index
            /\ history_result'.result = NoneV

\* C20: the cursor is None iff there is no entry and else indexes an entry;
\* push(url) makes url the current and last entry and drops the entries after
\* the previous current one; go_back and go_forward succeed, moving the cursor
\* by one and returning the entry it comes to, iff the cursor is not at the
\* first, respectively last, entry; failing they return None and change
\* nothing; neither changes the entries.
C20_HistoryCursor ==
    /\ [](CursorOnEntry)
    /\ [][ /\ \A url \in Urls : Push(url) => PushAsStated(url)
           /\ GoBack => MoveAsStated(-1, 0)
           /\ GoForward => MoveAsStated(1, Len(entries) - 1) ]_vars

\* a go_back that fails at the first of three entries, after two that
\* succeeded
C20_Witness ==
    /\ history_result = [op |-> "go_back", result |-> NoneV]
    /\ Len(entries) = 3
    /\ current_index = Some(0)

---------------------------------------------------------------------------
\* layout/tree.rs, app/tab.rs: from the document and its computed styles to
\* the layout tree and the display list.  A box carries, besides the fields of
\* LayoutBox, the node it was built from (origin), which the code does not
\* keep for text boxes; a display command carries its kind and the origin of
\* the box that pushed it.

\* the text of a text node, trimmed
text_of(node) == IF "text" \in DOMAIN node.attributes THEN node.attributes["text"] ELSE ""

\* Document::get_body: the first element with tag body, the nodes being
\* numbered in document order
get_body(d) ==
    LET bodies == {n \in DOMAIN d.nodes : is_element(d.nodes[n]) /\ d.nodes[n].tag_name = "body"}
    IN IF bodies = {} THEN NoneV
       ELSE Some(CHOOSE n \in bodies : \A other \in bodies : n <= other)

\* LayoutBox::new, LayoutBox::new_text and LayoutBox::new_image
BuiltBox(layout_box, node_id, text_content, origin) ==
    layout_box @@ [node_id |-> node_id, text_content |-> text_content, origin |-> origin]
new(box_type, node_id, origin) ==
    BuiltBox(LayoutBox(box_type, DefaultStyle, <<>>, NoneV, NoneV), node_id, NoneV, origin)
new_text(text, style, origin) ==
    BuiltBox(LayoutBox("Text", style, <<>>, NoneV, NoneV), NoneV, Some(text), origin)
new_image(src, style, node_id, origin) ==
    BuiltBox(ImageBox(Img(src, NoneV, NoneV, style)), node_id, NoneV, origin)

\* the loop of build_layout_tree taking every child
SkipsNoChild(styles, child_id) == FALSE

\* the test of the loop over the children in build_layout_tree: the child has
\* a computed style and its display is none
SkipsChild(styles, child_id) ==
    child_id \in DOMAIN styles /\ styles[child_id].display = "None"

RECURSIVE build_layout_tree(_, _, _)
\* LayoutTree::build_layout_tree; the img elements of the model carry no width
\* or height attribute
build_layout_tree(d, node_id, styles) ==
    LET node == d.nodes[node_id]
        style == IF node_id \in DOMAIN styles THEN styles[node_id] ELSE DefaultStyle
        kept == SelectSeq(children(d, node_id), LAMBDA c : ~SkipsChild(styles, c))
    IN CASE node.data = "Element" ->
              IF node.tag_name \in {"script", "style"} THEN new("Block", NoneV, node_id)
              ELSE IF node.tag_name = "img"
              THEN IF IsSome(get_attribute(node, "src"))
                   THEN new_image(get_attribute(node, "src")[1], style, Some(node_id), node_id)
                   ELSE new("Block", NoneV, node_id)
              ELSE IF style.display = "None" THEN new("Block", Some(node_id), node_id)
              ELSE [new(style.display, Some(node_id), node_id) EXCEPT
                       !.style = style,
                       !.children = [i \in 1..Len(kept) |->
                                        build_layout_tree(d, kept[i], styles)]]
         [] node.data = "Text" ->
              IF text_of(node) = "" THEN new("Text", NoneV, node_id)
              ELSE new_text(text_of(node), style, node_id)
         [] OTHER -> new("Block", NoneV, node_id)

\* LayoutTree::build: the root it leaves, root being the one before
build_tree(root, d, styles, viewport_width) ==
    IF IsNone(get_body(d)) THEN root
    ELSE LET laid == layout(build_layout_tree(d, get_body(d)[1], styles), viewport_width)
         IN Some([laid EXCEPT
                     !.dimensions.content.x =
                         laid.dimensions.margin.left + laid.dimensions.border.left
                         + laid.dimensions.padding.left,
                     !.dimensions.content.y =
                         laid.dimensions.margin.top + laid.dimensions.border.top
                         + laid.dimensions.padding.top])

\* a display command
DisplayCommand(kind, origin) == [kind |-> kind, origin |-> origin]

RECURSIVE render_layout_box(_)
\* LayoutTree::render_layout_box: the commands it pushes; no style of the
\* model has a box shadow
render_layout_box(layout_box) ==
    LET border == layout_box.dimensions.border
        RECURSIVE OfChildren(_)
        OfChildren(kids) ==
            IF kids = <<>> THEN <<>>
            ELSE render_layout_box(Head(kids)) \o OfChildren(Tail(kids))
    IN (IF layout_box.style.background_color[4] > 0
        THEN <<DisplayCommand("Rect", layout_box.origin)>> ELSE <<>>)
       \o (IF border.top > 0 \/ border.right > 0 \/ border.bottom > 0 \/ border.left > 0
           THEN <<DisplayCommand("Border", layout_box.origin)>> ELSE <<>>)
       \o (IF IsSome(layout_box.text_content)
           THEN <<DisplayCommand("Text", layout_box.origin)>> ELSE <<>>)
       \o (IF layout_box.box_type = "Image" /\ IsSome(layout_box.texture_id)
           THEN <<DisplayCommand("Image", layout_box.origin)>> ELSE <<>>)
       \o OfChildren(layout_box.children)

\* LayoutTree::build_display_list
build_display_list(root) == IF IsSome(root) THEN render_layout_box(root[1]) ELSE <<>>

\* <html><body><div><img src="a.png">hi<p>hi</p></div><p>hi</p></body></html>
\* with class="hidden" on the elements of hidden
RenderDocument(hidden) ==
    LET attributes(n) == IF n \in hidden THEN [class |-> <<"hidden">>] ELSE EmptyAttributes
    IN [root |-> 0,
        nodes |-> (0 :> Node(0, "Document", "", EmptyAttributes, NoneV, <<1>>))
               @@ (1 :> Node(1, "Element", "html", EmptyAttributes, Some(0), <<2>>))
               @@ (2 :> Node(2, "Element", "body", attributes(2), Some(1), <<3, 8>>))
               @@ (3 :> Node(3, "Element", "div", attributes(3), Some(2), <<4, 5, 6>>))
               @@ (4 :> Node(4, "Element", "img", [src |-> "a.png"] @@ attributes(4),
                             Some(3), <<>>))
               @@ (5 :> Node(5, "Text", "", [text |-> "hi"], Some(3), <<>>))
               @@ (6 :> Node(6, "Element", "p", attributes(6), Some(3), <<7>>))
               @@ (7 :> Node(7, "Text", "", [text |-> "hi"], Some(6), <<>>))
               @@ (8 :> Node(8, "Element", "p", attributes(8), Some(2), <<9>>))
               @@ (9 :> Node(9, "Text", "", [text |-> "hi"], Some(8), <<>>))]

RenderDocuments == {RenderDocument(hidden) : hidden \in SUBSET {2, 3, 4, 6, 8}}

\* div, img, p { background-color: green }
SheetBackgrounds ==
    <<Rule(<<Compound(<<Tag("div")>>), Compound(<<Tag("img")>>), Compound(<<Tag("p")>>)>>,
           <<Declaration("background-color", Keyword("green"), FALSE)>>)>>

\* .hidden { display: #none }: parse_single_value reads a hash that is no
\* colour as the keyword of its name
SheetHiddenKeyword ==
    <<Rule(<<Compound(<<Class("hidden")>>)>>,
           <<Declaration("display", Keyword("none"), FALSE)>>)>>

\* .hidden { display: none }: parse_single_value reads the identifier none as
\* Value::None
SheetHiddenNone ==
    <<Rule(<<Compound(<<Class("hidden")>>)>>,
           <<Declaration("display", NoneValue, FALSE)>>)>>

RenderSheets ==
    {<<SheetBackgrounds>>, <<SheetBackgrounds, SheetHiddenKeyword>>, <<SheetHiddenKeyword>>,
     <<SheetBackgrounds, SheetHiddenNone>>}

RenderViewportWidth == Px(300)

\* a tab without a page
RenderInit ==
    /\ build_document = NoneV
    /\ build_styles = <<>>
    /\ build_root = NoneV
    /\ display_list = <<>>
    /\ StyleIdle /\ ApplyIdle /\ BlockIdle /\ ScrollIdle /\ ImageIdle
    /\ FlexIdle /\ GridIdle /\ MatchIdle /\ HistoryIdle /\ LoadIdle

RenderUnchanged ==
    UNCHANGED <<styleVars, applyVars, blockVars, scrollVars, imageVars, flexVars, gridVars,
                matchVars, historyVars, loadVars>>

\* Tab::load_html on a page that parses to d with the stylesheets sheets:
\* compute_styles, LayoutTree::build and, in collect_pending_images, the
\* resolution of the image urls; one page is loaded
LoadPage ==
    \E d \in RenderDocuments, sheets \in RenderSheets :
        /\ IsNone(build_document)
        /\ build_document' = Some(d)
        /\ build_styles' = compute_styles(StyleComputer(sheets, NoneV), d)
        /\ LET built == build_tree(build_root, d, build_styles', RenderViewportWidth)
           IN build_root' = IF IsSome(built)
                            THEN Some(resolve_image_urls_recursive(built[1])) ELSE built
        /\ UNCHANGED display_list
        /\ RenderUnchanged

\* LayoutTree::update_image_texture for the image of the page, loaded
UpdateImageTexture ==
    /\ IsSome(build_root)
    /\ build_root' = Some(update_image_texture_recursive(
                              build_root[1], resolve_url("a.png")[1], 1, ImageSize(10, 10)))
    /\ build_root' # build_root
    /\ UNCHANGED <<build_document, build_styles, display_list>>
    /\ RenderUnchanged

\* Tab::build_display_list in a frame
BuildDisplayList ==
    /\ display_list' = build_display_list(build_root)
    /\ UNCHANGED <<build_document, build_styles, build_root>>
    /\ RenderUnchanged

RenderNext == LoadPage \/ UpdateImageTexture \/ BuildDisplayList

RenderSpec == RenderInit /\ [][RenderNext]_vars

RECURSIVE DescendantsOf(_, _)
\* the nodes below node_id in the document
DescendantsOf(d, node_id) ==
    LET kids == Range(children(d, node_id))
    IN kids \cup UNION {DescendantsOf(d, c) : c \in kids}

RECURSIVE BoxOrigins(_)
\* the nodes that have a box in the tree below and with layout_box
BoxOrigins(layout_box) ==
    {layout_box.origin}
    \cup UNION {BoxOrigins(layout_box.children[i]) : i \in 1..Len(layout_box.children)}

\* the elements whose computed display is none
DisplayNoneElements ==
    IF IsNone(build_document) THEN {}
    ELSE {n \in ElementsOf(build_document[1]) :
             n \in DOMAIN build_styles /\ build_styles[n].display = "None"}

---------------------------------------------------------------------------
\* css/selector.rs: one selector matched against one node of one document.

\* parse_nth_formula on the formulas of the model: odd and even are keywords,
\* a formula that parses as i32 is (0, n), and otherwise a is the text before
\* the n ("" and "+" are 1, "-" is -1) and b the text after it ("" is 0)
parse_nth_formula(input) ==
    CASE input = "odd" -> Some(<<2, 1>>)
      [] input = "even" -> Some(<<2, 0>>)
      [] input = "3" -> Some(<<0, 3>>)
      [] input = "2n+1" -> Some(<<2, 1>>)
      [] input = "n" -> Some(<<1, 0>>)
      [] input = "-n+3" -> Some(<<-1, 3>>)
      [] input = "3n-1" -> Some(<<3, -1>>)
      [] OTHER -> NoneV

NthFormulas == {"odd", "even", "3", "2n+1", "n", "-n+3", "3n-1"}

\* li:nth-child(an+b)
LiNthChild(a, b) == Compound(<<Tag("li"), NthChild(a, b)>>)

\* the coefficients of the nth-child selectors
NthAs == -3..3
NthBs == -2..6

NthSelectors ==
    {LiNthChild(parse_nth_formula(f)[1][1], parse_nth_formula(f)[1][2]) : f \in NthFormulas}
    \cup {LiNthChild(a, b) : a \in NthAs, b \in NthBs}

\* <ul>t<li></li><li></li>t<li></li>t<li></li><li></li></ul> with texts t where
\* with_text, and without them otherwise: five li, at nodes 3, 4, 6, 8 and 9
ListDocument(with_text) ==
    [root |-> 0,
     nodes |-> (0 :> Node(0, "Document", "", EmptyAttributes, NoneV, <<1>>))
            @@ (1 :> Node(1, "Element", "ul", EmptyAttributes, Some(0),
                          IF with_text THEN <<2, 3, 4, 5, 6, 7, 8, 9>>
                          ELSE <<3, 4, 6, 8, 9>>))
            @@ [n \in {3, 4, 6, 8, 9} |-> Node(n, "Element", "li", EmptyAttributes, Some(1), <<>>)]
            @@ (IF with_text
                THEN [n \in {2, 5, 7} |-> Node(n, "Text", "", EmptyAttributes, Some(1), <<>>)]
                ELSE <<>>)]

ListDocuments == {ListDocument(TRUE), ListDocument(FALSE)}

\* a chain of elements, each the only child of the one before
ChainDocument(tags) ==
    [root |-> 0,
     nodes |-> (0 :> Node(0, "Document", "", EmptyAttributes, NoneV, <<1>>))
            @@ [n \in 1..Len(tags) |->
                   Node(n, "Element", tags[n], EmptyAttributes, Some(n - 1),
                        IF n < Len(tags) THEN <<n + 1>> ELSE <<>>)]]

ChainTags == {"a", "b"}
\* the longest chain
ChainLength == 4
ChainDocuments ==
    {ChainDocument(tags) : tags \in UNION {[1..n -> ChainTags] : n \in 1..ChainLength}}

\* the selectors of one to three compounds a or b joined by > or by a space
ChainCompounds == {<<Tag(t)>> : t \in ChainTags}
Combinators == {"Child", "Descendant"}
ChainSelectors ==
    {<<Part(c, "None")>> : c \in ChainCompounds}
    \cup {<<Part(c1, "None"), Part(c2, k2)>> :
             c1 \in ChainCompounds, c2 \in ChainCompounds, k2 \in Combinators}
    \cup {<<Part(c[1], "None"), Part(c[2], k[1]), Part(c[3], k[2])>> :
             c \in [1..3 -> ChainCompounds], k \in [1..2 -> Combinators]}

MatchInit ==
    /\ \/ m_document \in ChainDocuments /\ m_selector \in ChainSelectors
       \/ m_document \in ListDocuments /\ m_selector \in NthSelectors
    /\ m_node \in DOMAIN m_document.nodes
    /\ m_result = NoneV
    /\ StyleIdle /\ ApplyIdle /\ BlockIdle /\ ScrollIdle /\ ImageIdle
    /\ FlexIdle /\ GridIdle /\ RenderIdle /\ HistoryIdle /\ LoadIdle

\* ComplexSelector::matches(document, node_id)
MatchSelector ==
    /\ IsNone(m_result)
    /\ m_result' = Some(Matches(m_selector, m_document, m_node))
    /\ UNCHANGED <<m_document, m_selector, m_node>>
    /\ UNCHANGED <<styleVars, applyVars, blockVars, scrollVars, imageVars, flexVars, gridVars,
                   renderVars, historyVars, loadVars>>

MatchNext == MatchSelector

MatchSpec == MatchInit /\ [][MatchNext]_vars

RECURSIVE ProperAncestors(_, _)
\* the parent of the node, its parent, and so on
ProperAncestors(d, node_id) ==
    IF IsNone(parent(d, node_id)) THEN {}
    ELSE {parent(d, node_id)[1]} \cup ProperAncestors(d, parent(d, node_id)[1])

\* the compounds can be assigned to nodes: the subject to the node, a Child
\* compound to the parent of the node of the compound before it, a Descendant
\* compound to a proper ancestor of it, each compound matching its node
AssignmentExists(parts, d, node_id) ==
    /\ parts # <<>>
    /\ \E assigned \in [1..Len(parts) -> DOMAIN d.nodes] :
          /\ assigned[1] = node_id
          /\ \A i \in 1..Len(parts) : CompoundMatches(parts[i].compound, d, assigned[i])
          /\ \A i \in 2..Len(parts) :
                IF parts[i].combinator = "Child"
                THEN parent(d, assigned[i - 1]) = Some(assigned[i])
                ELSE assigned[i] \in ProperAncestors(d, assigned[i - 1])

\* C16: matches(node) is true exactly when the subject compound matches the
\* node and the other compounds can be assigned, right to left, to ancestors:
\* a Child compound to the parent of the node matched before, a Descendant
\* compound to some proper ancestor of it.
C16_MatchesIffAssignment ==
    IsSome(m_result) => (m_result[1] <=> AssignmentExists(m_selector, m_document, m_node))

\* C16 witness: `a > b b` matches the last b of a, b, b, b: the nearest b
\* above it is no child of a, the one above that is
C16_Witness ==
    /\ m_document = ChainDocument(<<"a", "b", "b", "b">>)
    /\ m_selector = <<Part(<<Tag("b")>>, "None"), Part(<<Tag("b")>>, "Descendant"),
                      Part(<<Tag("a")>>, "Child")>>
    /\ m_node = 4
    /\ m_result = Some(TRUE)

\* the 1-based position of an element among the element children of its parent
PositionAmongElements(d, node_id) ==
    LET siblings == children(d, parent(d, node_id)[1])
        at == CHOOSE i \in 1..Len(siblings) : siblings[i] = node_id
    IN Cardinality({i \in 1..at : is_element(d.nodes[siblings[i]])})

\* x is a multiple of a, for the numbers of the model
MultipleOf(x, a) == \E k \in -10..10 : x = k * a

\* the rule as stated
NthRule(a, b, index) ==
    \/ a = 0 /\ index = b
    \/ a > 0 /\ index - b >= 0 /\ MultipleOf(index - b, a)
    \/ a < 0 /\ index - b <= 0 /\ MultipleOf(index - b, a)

\* C17: li:nth-child(an+b) matches a node exactly when it is an li whose
\* position among the element children of its parent satisfies the rule:
\* a = 0 and index = b, or a > 0 and index - b >= 0 and a multiple of a, or
\* a < 0 and index - b <= 0 and a multiple of a; li:nth-child(2n+1) matches
\* exactly the first, third and fifth of five li.
C17_NthChildRule ==
    (IsSome(m_result) /\ m_selector \in NthSelectors) =>
        LET nth == m_selector[1].compound[2]
            is_li == is_element(m_document.nodes[m_node])
                     /\ m_document.nodes[m_node].tag_name = "li"
        IN /\ m_result[1] <=>
                 (is_li /\ NthRule(nth.a, nth.b, PositionAmongElements(m_document, m_node)))
           /\ (m_selector = LiNthChild(parse_nth_formula("2n+1")[1][1],
                                       parse_nth_formula("2n+1")[1][2])) =>
                 (m_result[1] <=> m_node \in {3, 6, 9})

\* C17 witness: li:nth-child(2n+1) matches the third li, the sixth node of a
\* list with texts between the items
C17_Witness ==
    /\ m_document = ListDocument(TRUE)
    /\ m_selector = LiNthChild(2, 1)
    /\ m_node = 6
    /\ m_result = Some(TRUE)

---------------------------------------------------------------------------
\* net/async_loader.rs, app/tab.rs, app/browser.rs: asynchronous page loads.
\* A load is named by its number l: tasks[l] is the task AsyncLoader::load
\* spawned with its CancelToken, channels[l] what the receiver of its channel
\* holds.  A Url is its serialization; a response body is the number of the
\* load that fetched it.

\* LoadProgress
Started(url, content_length) ==
    [kind |-> "Started", url |-> url, content_length |-> content_length]
Progress(bytes_received, total_bytes) ==
    [kind |-> "Progress", bytes_received |-> bytes_received, total_bytes |-> total_bytes]
Complete(body, final_url) == [kind |-> "Complete", body |-> body, final_url |-> final_url]
Error(message) == [kind |-> "Error", message |-> message]
Cancelled == [kind |-> "Cancelled"]

TerminalKinds == {"Complete", "Error", "Cancelled"}

\* the url_str of start_async_load: https:// is put before a url without ://
url_str_of(url) == IF url = "example.com" THEN "https://example.com" ELSE url

\* Url::parse, then Url::to_string, on the strings of the model; https:// has
\* no host and does not parse
url_parse(url_str) ==
    CASE url_str \in {"https://example.com", "https://example.com/"} ->
             Some("https://example.com/")
      [] url_str = "https://example.com/page1" -> Some("https://example.com/page1")
      [] OTHER -> NoneV

\* LoadingProgress::new
LoadingProgress_new(url) == [bytes_received |-> 0, total_bytes |-> NoneV, url |-> url]

\* LoadingProgress::fraction, in hundredths
fraction(lp) ==
    IF IsSome(lp.total_bytes) /\ lp.total_bytes[1] > 0
    THEN Min((lp.bytes_received * 100) \div lp.total_bytes[1], 100)
    ELSE 30

\* the loading fields of Tab::new; document is the body it was parsed from
Tab_new ==
    [url |-> NoneV, loading |-> FALSE, error |-> NoneV, loading_progress |-> NoneV,
     cancel_token |-> NoneV, document |-> NoneV]

\* the loading fields of Chrome::new
Chrome_new == [url_text |-> "", loading |-> FALSE, progress |-> NoneV]

\* token.cancel() on the token the tab holds
CancelHeldToken(t, ts) ==
    IF IsSome(t.cancel_token) THEN [ts EXCEPT ![t.cancel_token[1]].cancelled = TRUE] ELSE ts

\* Tab::cancel_load: the tab it leaves
cancel_load(t) ==
    [t EXCEPT !.cancel_token = NoneV, !.loading = FALSE, !.loading_progress = NoneV]

\* Tab::start_async_load: the tab it leaves, and whether it returns Ok(token)
start_async_load(t, url, token) ==
    LET begun == [cancel_load(t) EXCEPT !.loading = TRUE, !.error = NoneV]
        parsed_url == url_parse(url_str_of(url))
    IN IF IsNone(parsed_url)
       THEN [tab |-> begun, ok |-> FALSE]
       ELSE [tab |-> [begun EXCEPT
                         !.url = parsed_url,
                         !.loading_progress = Some(LoadingProgress_new(url_str_of(url))),
                         !.cancel_token = Some(token)],
             ok |-> TRUE]

\* Tab::update_progress
update_progress(t, bytes_received, total_bytes) ==
    IF IsSome(t.loading_progress)
    THEN [t EXCEPT !.loading_progress =
             Some([@[1] EXCEPT !.bytes_received = bytes_received,
                               !.total_bytes = total_bytes])]
    ELSE t

\* Tab::complete_load: the tab and the history it leaves
complete_load(t, h, html) ==
    [tab |-> [t EXCEPT !.loading = FALSE, !.loading_progress = NoneV,
                       !.cancel_token = NoneV, !.document = Some(html)],
     history |-> IF IsSome(t.url) THEN push(h, t.url[1]) ELSE h]

\* Tab::fail_load
fail_load(t, error) ==
    [t EXCEPT !.loading = FALSE, !.loading_progress = NoneV, !.cancel_token = NoneV,
              !.error = Some(error)]

\* the task of load_internal: where it is, the response it got, the bytes it
\* received, and the flag of its CancelToken; cause is a history field: the
\* Browser call that started the load and the tab's history before that call
Task(url, cause) ==
    [url |-> url, pc |-> "Request", final_url |-> url, content_length |-> NoneV,
     bytes_received |-> 0, chunks |-> 0, cancelled |-> FALSE, cause |-> cause]

\* the urls navigate_async is called with
NavUrls == {"example.com", "https://example.com/page1", "https://"}

\* the most loads started, the most chunks of a response body, the sizes of
\* the chunks
MaxLoads == 2
MaxChunks == 2
ChunkSizes == {1}
ContentLengths == {Some(2)}

LoadHistoryIs(h) == entries = h.entries /\ current_index = h.current_index

\* a tab that has loaded https://example.com/ and then
\* https://example.com/page1 (body 0), and its chrome
Tab_browsed ==
    [Tab_new EXCEPT !.url = Some("https://example.com/page1"), !.document = Some(0)]
Chrome_browsed == [Chrome_new EXCEPT !.url_text = "https://example.com/page1"]
History_browsed == History(<<"https://example.com/", "https://example.com/page1">>, Some(1))

\* a new tab, or a tab that has loaded two pages
LoadInit ==
    /\ \/ tab = Tab_new /\ chrome = Chrome_new /\ LoadHistoryIs(history_new)
       \/ tab = Tab_browsed /\ chrome = Chrome_browsed /\ LoadHistoryIs(History_browsed)
    /\ progress_rx = NoneV
    /\ tasks = <<>>
    /\ channels = <<>>
    /\ sent = <<>>
    /\ superseded = {}
    /\ history_result = <<>>
    /\ StyleIdle /\ ApplyIdle /\ BlockIdle /\ ScrollIdle /\ ImageIdle
    /\ FlexIdle /\ GridIdle /\ RenderIdle /\ MatchIdle

LoadUnchanged ==
    UNCHANGED <<styleVars, applyVars, blockVars, scrollVars, imageVars, flexVars,
                gridVars, renderVars, matchVars, history_result>>

\* the channels after the receiver progress_rx holds is dropped
ReceiverDropped(chans) ==
    IF IsSome(progress_rx) THEN [chans EXCEPT ![progress_rx[1]] = <<>>] ELSE chans

\* Browser::navigate_async(url), the tab's history being h
navigate_async(url, h, cause) ==
    LET token == Len(tasks) + 1
        started == start_async_load(tab, url, token)
        cancelled_tasks == CancelHeldToken(tab, tasks)
    IN /\ started.ok => Len(tasks) < MaxLoads
       /\ IF started.ok
          THEN /\ tab' = started.tab
               /\ chrome' = [chrome EXCEPT !.url_text = started.tab.url[1],
                                           !.loading = TRUE]
               /\ tasks' = Append(cancelled_tasks, Task(started.tab.url[1], cause))
               /\ channels' = Append(ReceiverDropped(channels), <<>>)
               /\ sent' = Append(sent, <<>>)
               /\ progress_rx' = Some(token)
          ELSE /\ tab' = fail_load(started.tab, "Invalid URL")
               /\ tasks' = cancelled_tasks
               /\ UNCHANGED <<chrome, channels, sent, progress_rx>>
       /\ superseded' = superseded \cup (1..Len(tasks))
       /\ entries' = h.entries
       /\ current_index' = h.current_index
       /\ LoadUnchanged

\* a call of Browser::navigate_async
NavigateAsync(url) ==
    navigate_async(url, TheHistory, [op |-> "navigate", before |-> TheHistory])

\* a call of Browser::go_back that finds an entry
BrowserGoBack ==
    /\ IsSome(go_back(TheHistory).result)
    /\ navigate_async(go_back(TheHistory).result[1], go_back(TheHistory).history,
                      [op |-> "go_back", before |-> TheHistory])

\* a call of Browser::go_forward that finds an entry
BrowserGoForward ==
    /\ IsSome(go_forward(TheHistory).result)
    /\ navigate_async(go_forward(TheHistory).result[1], go_forward(TheHistory).history,
                      [op |-> "go_forward", before |-> TheHistory])

\* a call of Browser::cancel_loading
CancelLoading ==
    /\ tab' = cancel_load(tab)
    /\ tasks' = CancelHeldToken(tab, tasks)
    /\ chrome' = [chrome EXCEPT !.loading = FALSE, !.progress = NoneV]
    /\ channels' = ReceiverDropped(channels)
    /\ progress_rx' = NoneV
    /\ superseded' = superseded \cup (1..Len(tasks))
    /\ UNCHANGED <<sent, entries, current_index>>
    /\ LoadUnchanged

\* the end of the Complete, Error and Cancelled arms of poll_loading
PollEnded(progress) ==
    /\ chrome' = [chrome EXCEPT !.loading = FALSE, !.progress = NoneV,
                                !.url_text = IF progress.kind = "Complete"
                                             THEN progress.final_url ELSE @]
    /\ channels' = ReceiverDropped(channels)
    /\ progress_rx' = NoneV

\* a call of Browser::poll_loading that receives a message
PollLoading ==
    /\ IsSome(progress_rx)
    /\ channels[progress_rx[1]] # <<>>
    /\ LET progress == Head(channels[progress_rx[1]])
       IN CASE progress.kind = "Started" ->
                      /\ tab' = IF IsSome(tab.loading_progress)
                                THEN [tab EXCEPT !.loading_progress =
                                         Some([@[1] EXCEPT !.total_bytes =
                                                  progress.content_length])]
                                ELSE tab
                      /\ channels' = [channels EXCEPT ![progress_rx[1]] = Tail(@)]
                      /\ UNCHANGED <<chrome, progress_rx, entries, current_index>>
               [] progress.kind = "Progress" ->
                      /\ tab' = update_progress(tab, progress.bytes_received,
                                                progress.total_bytes)
                      /\ chrome' = IF IsSome(tab'.loading_progress)
                                   THEN [chrome EXCEPT !.progress =
                                            Some(fraction(tab'.loading_progress[1]))]
                                   ELSE chrome
                      /\ channels' = [channels EXCEPT ![progress_rx[1]] = Tail(@)]
                      /\ UNCHANGED <<progress_rx, entries, current_index>>
               [] progress.kind = "Complete" ->
                      LET completed == complete_load([tab EXCEPT !.url =
                                                         Some(progress.final_url)],
                                                     TheHistory, progress.body)
                      IN /\ tab' = completed.tab
                         /\ entries' = completed.history.entries
                         /\ current_index' = completed.history.current_index
                         /\ PollEnded(progress)
               [] progress.kind = "Error" ->
                      /\ tab' = fail_load(tab, progress.message)
                      /\ PollEnded(progress)
                      /\ UNCHANGED <<entries, current_index>>
               [] OTHER ->
                      /\ tab' = [tab EXCEPT !.loading = FALSE, !.loading_progress = NoneV]
                      /\ PollEnded(progress)
                      /\ UNCHANGED <<entries, current_index>>
    /\ UNCHANGED <<tasks, sent, superseded>>
    /\ LoadUnchanged

\* tx.send(message) by the task of load l, which goes to pc; a message sent
\* after the receiver was dropped is lost
Send(l, message, task) ==
    /\ tasks' = [tasks EXCEPT ![l] = task]
    /\ sent' = [sent EXCEPT ![l] = Append(@, message)]
    /\ channels' = IF progress_rx = Some(l)
                   THEN [channels EXCEPT ![l] = Append(@, message)]
                   ELSE channels
    /\ UNCHANGED <<tab, chrome, progress_rx, superseded, entries, current_index>>
    /\ LoadUnchanged

\* load_internal up to the stream: the request fails, the status is no
\* success, or the response arrives
SendRequest(l) ==
    /\ tasks[l].pc = "Request"
    /\ \/ \E message \in {"Request failed", "HTTP 404"} :
             Send(l, Error(message), [tasks[l] EXCEPT !.pc = "Done"])
       \/ \E final_url \in {tasks[l].url}, content_length \in ContentLengths :
             Send(l, Started(final_url, content_length),
                  [tasks[l] EXCEPT !.pc = "Stream", !.final_url = final_url,
                                   !.content_length = content_length])

\* load_internal: one turn of the loop over the stream
StreamChunk(l) ==
    /\ tasks[l].pc = "Stream"
    /\ tasks[l].chunks < MaxChunks
    /\ IF tasks[l].cancelled
       THEN Send(l, Cancelled, [tasks[l] EXCEPT !.pc = "Done"])
       ELSE \/ \E size \in ChunkSizes :
                  Send(l, Progress(tasks[l].bytes_received + size, tasks[l].content_length),
                       [tasks[l] EXCEPT !.bytes_received = @ + size, !.chunks = @ + 1])
            \/ Send(l, Error("Stream error"), [tasks[l] EXCEPT !.pc = "Done"])

\* the end of the stream without the final cancellation check
StreamEndWithoutCheck(l) ==
    /\ tasks[l].pc = "Stream"
    /\ Send(l, Complete(l, tasks[l].final_url), [tasks[l] EXCEPT !.pc = "Done"])

\* load_internal after the stream ended
StreamEnd(l) ==
    /\ tasks[l].pc = "Stream"
    /\ IF tasks[l].cancelled
       THEN Send(l, Cancelled, [tasks[l] EXCEPT !.pc = "Done"])
       ELSE Send(l, Complete(l, tasks[l].final_url), [tasks[l] EXCEPT !.pc = "Done"])

\* the browser holds the receiver of the channel of load l
Listening(l) == progress_rx = Some(l)

\* The browser and the task it listens to.  A task whose receiver was dropped
\* is followed no further here: nothing it sends is received.
LoadNext ==
    \/ \E url \in NavUrls : NavigateAsync(url)
    \/ BrowserGoBack
    \/ BrowserGoForward
    \/ CancelLoading
    \/ PollLoading
    \/ \E l \in 1..Len(tasks) : Listening(l) /\ SendRequest(l)
    \/ \E l \in 1..Len(tasks) : Listening(l) /\ StreamChunk(l)
    \/ \E l \in 1..Len(tasks) : Listening(l) /\ StreamEnd(l)

LoadSpec == LoadInit /\ [][LoadNext]_vars

\* the message the next poll_loading receives, and the load that sent it
Receives == IsSome(progress_rx) /\ channels[progress_rx[1]] # <<>>
Received == Head(channels[progress_rx[1]])

\* C21: a poll_loading that receives a message of a superseded load leaves
\* the tab, its document, URL and history included, as it was
C21_NoStaleLoad ==
    [][(PollLoading /\ progress_rx[1] \in superseded)
           => (tab' = tab /\ entries' = entries /\ current_index' = current_index)]_vars

\* C22: when the load started by go_back from a history [.., A, B] with B
\* current completes at A, the entries are as before go_back, A is current and
\* go_forward returns B; when the load started by go_forward completes, the
\* entries are as before go_forward
C22_BackForwardKeepsHistory ==
    [][(PollLoading /\ Received.kind = "Complete"
           /\ Received.final_url = tasks[progress_rx[1]].url)
           => LET cause == tasks[progress_rx[1]].cause
                  index == cause.before.current_index[1]
              IN /\ cause.op = "go_back" =>
                        /\ entries' = cause.before.entries
                        /\ current_index' = Some(index - 1)
                        /\ can_go_forward(History(entries', current_index'))
                        /\ go_forward(History(entries', current_index')).result
                               = Some(cause.before.entries[index + 1])
                 /\ cause.op = "go_forward" => entries' = cause.before.entries]_vars

\* C27: tab.loading, chrome.loading and the presence of a progress receiver
\* agree
C27_LoadingIndicatorsAgree ==
    /\ tab.loading = chrome.loading
    /\ chrome.loading = IsSome(progress_rx)

---------------------------------------------------------------------------
\* The load tasks alone: loads are started and cancelled, no message is
\* received.  Every request is answered and every stream ends.

\* the most loads started here
MaxTasks == 2

ProtocolNext ==
    \/ \E url \in NavUrls : Len(tasks) < MaxTasks /\ NavigateAsync(url)
    \/ CancelLoading
    \/ \E l \in 1..Len(tasks) : SendRequest(l)
    \/ \E l \in 1..Len(tasks) : StreamChunk(l)
    \/ \E l \in 1..Len(tasks) : StreamEnd(l)

ProtocolSpec ==
    /\ LoadInit
    /\ [][ProtocolNext]_vars
    /\ \A l \in 1..MaxTasks : WF_vars(l \in 1..Len(tasks) /\ SendRequest(l))
    /\ \A l \in 1..MaxTasks : WF_vars(l \in 1..Len(tasks) /\ StreamEnd(l))

\* where the messages of a kind are among the messages a task sent
SentAt(l, kinds) == {i \in 1..Len(sent[l]) : sent[l][i].kind \in kinds}

\* the messages of load l so far keep to the protocol
KeepsProtocol(l) ==
    /\ Cardinality(SentAt(l, TerminalKinds)) <= 1
    /\ SentAt(l, TerminalKinds) \subseteq {Len(sent[l])}
    /\ tasks[l].pc = "Done" <=> SentAt(l, TerminalKinds) # {}
    /\ Cardinality(SentAt(l, {"Started"})) <= 1
    /\ \A i \in SentAt(l, {"Progress"}) : \E j \in SentAt(l, {"Started"}) : j < i
    /\ \A i, j \in SentAt(l, {"Progress"}) :
          i < j => sent[l][i].bytes_received <= sent[l][j].bytes_received

\* a task that steps from a cancellation check with its token set
ObservesCancel(l) ==
    /\ tasks[l].pc = "Stream"
    /\ tasks[l].cancelled
    /\ sent'[l] # sent[l]

====
